---- MODULE Spec2Model ----
(***************************************************************************)
(* Model of the automation workflow of platform/automation:                *)
(*   - Workflow._execute_agent_flow and the two review helpers             *)
(*     (_perform_qa_review_with_retries,                                   *)
(*     _perform_manager_validation_with_retries), one action per gateway   *)
(*     invocation outcome and one for the deliverable check;               *)
(*   - CodexRunner.run as the executor gateway: it either fails            *)
(*     (CalledProcessError) or returns a session id;                       *)
(*   - Workflow._topologically_sort, _collect_tasks and _run_task_loop;    *)
(*   - Workflow._run_bug_pipeline and _run_feedback_pipeline with the      *)
(*     stage state they load, update and save.                             *)
(***************************************************************************)
EXTENDS Integers, Sequences, FiniteSets, TLC

\* ------------------------------------------------------------------------
\* Bounds of the model
\* ------------------------------------------------------------------------
MaxAgentRetries == 2
MaxManagerRetries == 1
MaxQARetries == 1
\* task identifiers 1..MaxTasks stand for strings in ascending order; a
\* backlog lists at most MaxTasks entries with at most MaxEdges dependency
\* references in all
MaxTasks == 3
MaxEdges == 2
\* a pipeline directory holds at most MaxItems items, and at most
\* MaxStageRuns stage results are recorded in all
MaxItems == 2
MaxStageRuns == 3
\* processes the bot may spawn
MaxProcesses == 3
\* tokens in the text of an output file
MaxTextLen == 4

\* ------------------------------------------------------------------------
\* State
\* ------------------------------------------------------------------------
VARIABLES
    \* Workflow configuration (Workflow.__init__ and the call's arguments)
    agent_retry_limit, manager_retry_limit, qa_retry_limit, enable_qa,
    \* position in _execute_agent_flow and how the run ended
    pc, outcome,
    \* the declared deliverable in the workspace, as the executor left it
    deliverable,
    \* locals of _execute_agent_flow
    attempt, prompt_text, agent_session, agent_result,
    qa_session, qa_attempt_index, qa_follow_counter,
    manager_session, manager_attempt,
    \* locals of the _perform_*_with_retries call in progress
    review_phase, review_attempt, session, retry_index,
    \* observation of the run: executor invocations made, the latest
    \* invocation of each role, the latest invocation of the run, the latest
    \* parsed manager verdict
    agent_calls, last, lastEvent, managerVerdict,
    \* observation of the run, kept when tally.on: QA invocations made and
    \* manager verdicts with status fail received; kept when tally.watch: the
    \* status of the latest parsed QA review of the current executor output
    \* and whether that review listed issues; kept when tally.log: the
    \* roles of the records in the conversation ledger
    tally

flowVars == <<agent_retry_limit, manager_retry_limit, qa_retry_limit, enable_qa,
              pc, outcome, deliverable, attempt, prompt_text, agent_session, agent_result,
              qa_session, qa_attempt_index, qa_follow_counter,
              manager_session, manager_attempt,
              review_phase, review_attempt, session, retry_index,
              agent_calls, last, lastEvent, managerVerdict, tally>>

VARIABLES
    \* the list of TaskEntry given to the scheduler (backlog order)
    tasks,
    \* position in _run_task_loop / result of the scheduler call
    sched_pc, sched_error, ordered,
    \* Workflow attributes read by _run_task_loop
    processed_tasks, reprocess_tasks, max_tasks,
    \* the tasks for which _select_prompt_for_task returned None so far
    unroutable,
    \* locals of _run_task_loop: index of the for loop, count
    loop_index, count,
    \* observation: the tasks handed to _execute_agent_flow, in order, those
    \* of them whose flow ended with a manager pass, processed_tasks as
    \* loaded from processed_tasks.json, and the tasks whose flow raised
    \* WorkflowError
    handed, accepted, completed_before, failed,
    \* observation: task.owner as read by the latest _select_prompt_for_task
    owner

schedVars == <<tasks, sched_pc, sched_error, ordered, processed_tasks, reprocess_tasks,
               max_tasks, unroutable, loop_index, count, handed, accepted, completed_before, failed, owner>>

VARIABLES
    \* which pipeline runs ("bug" or "feedback") and its item directories
    \* 1..n_items in sorted order
    pipeline, n_items,
    \* state.json of each item, and whether its submission.json is there
    stage_state, has_submission,
    \* position in the pipeline's for loop
    pipe_pc, item_index,
    \* observation: the stages for which _execute_agent_flow was called, per
    \* item, and the latest step of the pipeline
    stage_runs, pipe_event

pipeVars == <<pipeline, n_items, stage_state, has_submission, pipe_pc, item_index,
              stage_runs, pipe_event>>

VARIABLES
    \* the processes the bot has spawned so far: "running" or "exited" each
    processes,
    \* WORKFLOW_PROCESS and WORKFLOW_MONITOR_TASK: 0 for None, else the
    \* number of a process / of a monitor task
    WORKFLOW_PROCESS, WORKFLOW_MONITOR_TASK,
    \* the tasks created for _wait_for_workflow_exit: the process each one
    \* waits for and its position
    monitors,
    \* WORKFLOW_LOCK: "free" or held by "handler"
    WORKFLOW_LOCK,
    \* the position of the update handler (updates are handled one at a time)
    handler_pc

botVars == <<processes, WORKFLOW_PROCESS, WORKFLOW_MONITOR_TASK, monitors, WORKFLOW_LOCK,
             handler_pc>>

VARIABLES
    \* the text of an output file, as the list of its tokens, and what
    \* read_agent_output made of it
    raw_text, read_result

parseVars == <<raw_text, read_result>>

vars == <<flowVars, schedVars, pipeVars, botVars, parseVars>>

configVars == <<agent_retry_limit, manager_retry_limit, qa_retry_limit, enable_qa>>

Roles == {"agent", "qa", "manager"}

\* Optional[str] session id: None, or an id the gateway created while
\* serving role `by`.
None == [by |-> "none", n |-> 0]

\* what is remembered of the latest invocation of a role: whether one was
\* made, whether the gateway returned (ok), the session id it returned, and
\* whether it was made after the executor invocation that is the latest now
NoInvocation == [made |-> FALSE, ok |-> FALSE, tok |-> None, cur |-> FALSE]

\* A session id the gateway creates for a new conversation: it differs from
\* the id it was asked to resume and from the id it returned to this role
\* last (ids further back are not told apart).
NewId(role, resume) ==
    [by |-> role, n |-> CHOOSE n \in 1..3 : n # resume.n /\ n # last[role].tok.n]

\* CodexRunner._extract_session_id(raw_output) or resume_session: the output
\* carries a marker line with a new id, or it carries none and the resume
\* token (possibly None) is returned.
SessionId(marker, role, resume) ==
    IF marker THEN NewId(role, resume) ELSE resume

\* the latest invocation of the run: role, resume_session passed, result, and
\* what was remembered of the invocation of that role before it
NoEvent == [role |-> "none", resume |-> None, kind |-> "none", status |-> "none",
            next_actor |-> "none", prior |-> NoInvocation]

\* status values a parsed review can carry ("other": absent or unrecognized)
ReviewStatus == {"pass", "fail", "other"}

\* next_actor values of a manager review ("absent": the field is missing)
NextActors == {"agent", "qa", "absent"}

\* states of a declared deliverable in the workspace
FileStates == {"absent", "empty", "content"}

\* ------------------------------------------------------------------------
\* Helpers translated from the source
\* ------------------------------------------------------------------------
max_agent_attempts_mut == agent_retry_limit + 2
max_agent_attempts == agent_retry_limit + 1

max_manager_attempts_mut == manager_retry_limit + 2
max_manager_attempts == manager_retry_limit + 1

max_qa_attempts_mut == qa_retry_limit + 2
max_qa_attempts == qa_retry_limit + 1

\* _missing_deliverables: a deliverable is missing when the file does not
\* exist or when its text is empty after strip().
missing_deliverables_mut(file) == file = "absent"
missing_deliverables(file) == file \in {"absent", "empty"}

\* `enable_qa and task_id and task_source and qa_label and task_dir`: the
\* only caller passing enable_qa = True (_run_task_loop) passes all four.
qa_enabled == enable_qa

\* `session = None` after subprocess.CalledProcessError in a review helper,
\* `agent_session = None` in _execute_agent_flow
session_after_gateway_error_mut(current) == current
session_after_gateway_error(current) == None

\* `session = exc.result.session_id if getattr(exc, "result", None) else None`
\* (exc.result is always set by _run_manager_validation/_run_qa_review)
session_after_parse_error_mut(result_session) == None
session_after_parse_error(result_session) == result_session

\* resume_session of the follow-up QA review requested by the manager
qa_follow_resume_mut == agent_session
qa_follow_resume == qa_session

\* `next_actor == "qa" and enable_qa and ...`
escalate_to_qa_mut(next_actor) == FALSE
escalate_to_qa(next_actor) == next_actor = "qa" /\ qa_enabled

\* _build_retry_prompt(original_prompt=initial_prompt, issues=issues): the
\* corrective prompt, the given issues above the original instructions.  The
\* runs that watch the prompts tell them apart by whose issues they list.
build_retry_prompt(issues_of) ==
    IF ~tally.watch THEN "retry"
    ELSE IF issues_of = "qa" THEN "retry_qa" ELSE "retry_manager"

\* `issues = qa_review.get("issues") or issues` after a follow-up QA review:
\* the manager's issues stay when the QA review lists none
follow_up_issues_mut(listed) == "manager"
follow_up_issues(listed) == IF listed THEN "qa" ELSE "manager"

\* next_actor = (review.get("next_actor") or "agent").lower()
effective_next_actor_mut(next_actor) == IF next_actor = "absent" THEN "qa" ELSE next_actor
effective_next_actor(next_actor) == IF next_actor = "absent" THEN "agent" ELSE next_actor

\* ------------------------------------------------------------------------
\* Observation of one gateway invocation
\* ------------------------------------------------------------------------
\* kind: "gwfail" (CalledProcessError), "unparsable" (InvalidAgentResponseError),
\* "nondict" (JSON that is not an object), "verdict" (a parsed review), "ok"
\* (an executor run that returned).  listed: a parsed QA review has a
\* non-empty `issues` list.
\* Workflow._record_conversation appends one line to the conversation log;
\* it is called after runner.run returned, so not when run raised
record_conversation(ledger, role) == Append(ledger, role)

\* the label handed to runner.run, which names the transcript
\* ({label}.log) and the last-message file ({label}.txt): the base label of
\* the role, alone for number 1 and with "-retry{n-1}" for number n, the
\* number being `attempt` for the executor, the `attempt` argument of
\* _run_manager_validation (manager_attempt of the caller) for the manager
\* and the `attempt` argument of _run_qa_review (current_attempt) for QA
label_of(role) ==
    [base |-> role,
     retry |-> IF role = "agent" THEN attempt - 1
               ELSE IF role = "manager" THEN manager_attempt - 1
               ELSE review_attempt + retry_index - 1]

\* CodexRunner.run opens {label}.log and {label}.txt for writing
files_written(seen, role) ==
    [labels |-> seen.labels \cup {label_of(role)},
     overwritten |-> seen.overwritten \/ label_of(role) \in seen.labels]

Observe(role, resume, ok, tok, kind, status, next_actor, listed) ==
    /\ agent_calls' = IF role = "agent" THEN agent_calls + 1 ELSE agent_calls
    /\ last' = [r \in Roles |->
                   IF r = role THEN [made |-> TRUE, ok |-> ok, tok |-> tok, cur |-> TRUE]
                   ELSE IF role = "agent" THEN [last[r] EXCEPT !.cur = FALSE]
                   ELSE last[r]]
    /\ lastEvent' = [role |-> role, resume |-> resume, kind |-> kind, status |-> status,
                     next_actor |-> next_actor, prior |-> last[role]]
    /\ managerVerdict' = IF role = "manager" /\ kind = "verdict" THEN status ELSE managerVerdict
    /\ tally' = IF tally.files
                THEN [tally EXCEPT !.labels = files_written(tally, role).labels,
                                   !.overwritten = files_written(tally, role).overwritten]
                ELSE IF tally.log
                THEN [tally EXCEPT !.ledger = IF ok THEN record_conversation(@, role) ELSE @]
                ELSE IF tally.on
                THEN [tally EXCEPT
                        !.qa_calls = IF role = "qa" THEN @ + 1 ELSE @,
                        !.manager_fails =
                            IF role = "manager" /\ kind = "verdict" /\ status = "fail"
                            THEN @ + 1 ELSE @]
                ELSE IF ~tally.watch THEN tally
                ELSE [tally EXCEPT
                        !.qa_verdict =
                            IF role = "agent" THEN "none"
                            ELSE IF role = "qa" /\ kind = "verdict" THEN status ELSE @,
                        !.qa_listed =
                            IF role = "agent" THEN FALSE
                            ELSE IF role = "qa" /\ kind = "verdict" THEN listed ELSE @]

\* ------------------------------------------------------------------------
\* Control transfers of _execute_agent_flow
\* ------------------------------------------------------------------------
\* `continue` of the for loop, or `break` out of the while loop that ends the
\* for body: the next attempt starts, or range() is used up and the function
\* runs off its end and returns None.
NextAgentAttempt ==
    IF attempt < max_agent_attempts
    THEN /\ attempt' = attempt + 1
         /\ pc' = "agent"
         /\ outcome' = outcome
    ELSE /\ attempt' = attempt
         /\ pc' = "done"
         /\ outcome' = "FellThrough"

\* lines 601-604 and the call at 607: the manager loop starts
EnterManager(qa_index) ==
    /\ manager_attempt' = 1
    /\ manager_session' = None
    /\ qa_follow_counter' = IF enable_qa THEN (IF qa_index > 1 THEN qa_index ELSE 1) ELSE 0
    /\ pc' = "manager"
    /\ review_phase' = "manager"
    /\ review_attempt' = 1
    /\ session' = None
    /\ retry_index' = 0

Raise(kind) ==
    /\ pc' = "done"
    /\ outcome' = kind

\* the task loop is not running
SchedIdle ==
    /\ tasks = <<>>
    /\ sched_pc = "idle"
    /\ sched_error = "none"
    /\ ordered = <<>>
    /\ processed_tasks = {}
    /\ reprocess_tasks = FALSE
    /\ max_tasks = -1
    /\ unroutable = {}
    /\ loop_index = 0
    /\ count = 0
    /\ handed = <<>>
    /\ accepted = {}
    /\ completed_before = {}
    /\ failed = {}
    /\ owner = <<>>

\* no pipeline is running
NoStep == [item |-> 0, kind |-> "none", stage |-> "none", status |-> "none", flow |-> "none"]

\* the bot has started nothing
BotIdle ==
    /\ processes = <<>>
    /\ WORKFLOW_PROCESS = 0
    /\ WORKFLOW_MONITOR_TASK = 0
    /\ monitors = <<>>
    /\ WORKFLOW_LOCK = "free"
    /\ handler_pc = "idle"

\* read_agent_output has not been called
NotRead == [kind |-> "none", value |-> <<>>]

ParseIdle == raw_text = <<>> /\ read_result = NotRead

PipeIdle ==
    /\ pipeline = "bug"
    /\ n_items = 0
    /\ stage_state = <<>>
    /\ has_submission = <<>>
    /\ pipe_pc = "off"
    /\ item_index = 0
    /\ stage_runs = <<>>
    /\ pipe_event = NoStep

NoTally ==
    [on |-> FALSE, qa_calls |-> 0, manager_fails |-> 0,
     watch |-> FALSE, qa_verdict |-> "none", qa_listed |-> FALSE,
     log |-> FALSE, ledger |-> <<>>,
     files |-> FALSE, labels |-> {}, overwritten |-> FALSE]

\* ------------------------------------------------------------------------
\* Initial state: a call of _execute_agent_flow
\* ------------------------------------------------------------------------
FlowStart ==
    /\ agent_retry_limit \in 0..MaxAgentRetries
    /\ manager_retry_limit \in 0..MaxManagerRetries
    /\ qa_retry_limit \in 0..MaxQARetries
    /\ enable_qa \in BOOLEAN
    /\ pc = "agent"
    /\ outcome = "running"
    /\ deliverable = "absent"
    /\ attempt = 1
    /\ prompt_text = "initial"
    /\ agent_session = None
    /\ agent_result = None
    /\ qa_session = None
    /\ qa_attempt_index = 0
    /\ qa_follow_counter = 0
    /\ manager_session = None
    /\ manager_attempt = 0
    /\ review_phase = "none"
    /\ review_attempt = 0
    /\ session = None
    /\ retry_index = 0
    /\ agent_calls = 0
    /\ last = [r \in Roles |-> NoInvocation]
    /\ lastEvent = NoEvent
    /\ managerVerdict = "none"
    /\ SchedIdle
    /\ PipeIdle
    /\ BotIdle
    /\ ParseIdle

Init == FlowStart /\ tally = NoTally

\* the same call with the invocations tallied
InitTally == FlowStart /\ tally = [NoTally EXCEPT !.on = TRUE]

\* the same call with the prompts and the QA verdicts watched
InitPrompt == FlowStart /\ tally = [NoTally EXCEPT !.watch = TRUE]

\* the same call with the conversation ledger observed
InitLedger == FlowStart /\ tally = [NoTally EXCEPT !.log = TRUE]

\* ------------------------------------------------------------------------
\* Executing: self.runner.run(prompt_text, resume_session=agent_session)
\* ------------------------------------------------------------------------
\* the gateway exits non-zero (subprocess.CalledProcessError)
AgentFail ==
    /\ pc = "agent"
    /\ UNCHANGED <<schedVars, pipeVars, botVars, parseVars>>
    /\ Observe("agent", agent_session, FALSE, None, "gwfail", "none", "none", FALSE)
    /\ IF attempt = max_agent_attempts
       THEN /\ Raise("AgentExhausted")
            /\ UNCHANGED <<attempt, agent_session>>
       ELSE /\ agent_session' = session_after_gateway_error(agent_session)
            /\ NextAgentAttempt
    /\ UNCHANGED <<configVars, deliverable, prompt_text, agent_result, qa_session, qa_attempt_index,
                   qa_follow_counter, manager_session, manager_attempt,
                   review_phase, review_attempt, session, retry_index>>

\* the gateway returns; agent_session = agent_result.session_id
AgentOk(marker, file) ==
    /\ pc = "agent"
    /\ UNCHANGED <<schedVars, pipeVars, botVars, parseVars>>
    /\ deliverable' = file
    /\ LET sid == SessionId(marker, "agent", agent_session) IN
       /\ Observe("agent", agent_session, TRUE, sid, "ok", "none", "none", FALSE)
       /\ agent_result' = sid
       /\ agent_session' = sid
    /\ pc' = "accept"
    /\ UNCHANGED <<configVars, outcome, attempt, prompt_text, qa_session, qa_attempt_index,
                   qa_follow_counter, manager_session, manager_attempt,
                   review_phase, review_attempt, session, retry_index>>

\* ------------------------------------------------------------------------
\* Acceptance Check: self._missing_deliverables(spec.deliverables)
\* ------------------------------------------------------------------------
AcceptMissing ==
    /\ pc = "accept"
    /\ UNCHANGED <<schedVars, pipeVars, botVars, parseVars>>
    /\ missing_deliverables(deliverable)
    /\ prompt_text' = "missing"
    /\ NextAgentAttempt
    /\ UNCHANGED <<configVars, deliverable, agent_session, agent_result, qa_session, qa_attempt_index,
                   qa_follow_counter, manager_session, manager_attempt,
                   review_phase, review_attempt, session, retry_index,
                   agent_calls, last, lastEvent, managerVerdict, tally>>

AcceptPresent ==
    /\ pc = "accept"
    /\ UNCHANGED <<schedVars, pipeVars, botVars, parseVars>>
    /\ ~missing_deliverables(deliverable)
    /\ qa_session' = None
    /\ qa_attempt_index' = 0
    /\ IF qa_enabled
       THEN \* _perform_qa_review_with_retries(attempt=1, resume_session=None)
            /\ pc' = "qa"
            /\ review_phase' = "qa_initial"
            /\ review_attempt' = 1
            /\ session' = None
            /\ retry_index' = 0
            /\ UNCHANGED <<manager_session, manager_attempt, qa_follow_counter>>
       ELSE EnterManager(0)
    /\ UNCHANGED <<configVars, deliverable, outcome, attempt, prompt_text, agent_session, agent_result,
                   agent_calls, last, lastEvent, managerVerdict, tally>>

\* ------------------------------------------------------------------------
\* The review helpers: locals of the call in progress
\* ------------------------------------------------------------------------
current_attempt == review_attempt + retry_index

\* the helper returns or raises: its frame is gone
LeaveReview ==
    /\ review_phase' = "none"
    /\ review_attempt' = 0
    /\ session' = None
    /\ retry_index' = 0

\* `except` branch of a helper after invocation number retry_index + 1:
\* raise when the budget is used up, else loop with the given session
RetryReview(max_attempts, fatal, next_session) ==
    IF retry_index + 1 >= max_attempts
    THEN /\ Raise(fatal)
         /\ LeaveReview
    ELSE /\ session' = next_session
         /\ retry_index' = retry_index + 1
         /\ UNCHANGED <<pc, outcome, review_phase, review_attempt>>

\* ------------------------------------------------------------------------
\* Secondary Review: one invocation of _perform_qa_review_with_retries
\* ------------------------------------------------------------------------
QAFail ==
    /\ pc = "qa"
    /\ UNCHANGED <<schedVars, pipeVars, botVars, parseVars>>
    /\ Observe("qa", session, FALSE, None, "gwfail", "none", "none", FALSE)
    /\ RetryReview(max_qa_attempts, "QAUnresolved", session_after_gateway_error(session))
    /\ UNCHANGED <<configVars, deliverable, attempt, prompt_text, agent_session, agent_result,
                   qa_session, qa_attempt_index, qa_follow_counter,
                   manager_session, manager_attempt>>

\* read_agent_output raises InvalidAgentResponseError
QAUnparsable(marker) ==
    /\ pc = "qa"
    /\ UNCHANGED <<schedVars, pipeVars, botVars, parseVars>>
    /\ LET sid == SessionId(marker, "qa", session) IN
       /\ Observe("qa", session, TRUE, sid, "unparsable", "none", "none", FALSE)
       /\ RetryReview(max_qa_attempts, "QAUnresolved", session_after_parse_error(sid))
    /\ UNCHANGED <<configVars, deliverable, attempt, prompt_text, agent_session, agent_result,
                   qa_session, qa_attempt_index, qa_follow_counter,
                   manager_session, manager_attempt>>

\* read_agent_output returns JSON that is not an object: qa_review.get fails
\* with AttributeError, which nothing in the flow catches
QANonDict(marker) ==
    /\ pc = "qa"
    /\ UNCHANGED <<schedVars, pipeVars, botVars, parseVars>>
    /\ LET sid == SessionId(marker, "qa", session) IN
       /\ Observe("qa", session, TRUE, sid, "nondict", "none", "none", FALSE)
       /\ qa_session' = sid
    /\ IF review_phase = "qa_initial"
       THEN qa_attempt_index' = current_attempt /\ UNCHANGED qa_follow_counter
       ELSE qa_follow_counter' = current_attempt /\ UNCHANGED qa_attempt_index
    /\ Raise("Crashed")
    /\ LeaveReview
    /\ UNCHANGED <<configVars, deliverable, attempt, prompt_text, agent_session, agent_result,
                   manager_session, manager_attempt>>

\* the review parsed; lines 583-599 (first review) and 674-690 (follow-up)
QAVerdict(marker, status, listed) ==
    /\ pc = "qa"
    /\ UNCHANGED <<schedVars, pipeVars, botVars, parseVars>>
    /\ LET sid == SessionId(marker, "qa", session) IN
       /\ Observe("qa", session, TRUE, sid, "verdict", status, "none", listed)
       /\ qa_session' = sid
    /\ IF review_phase = "qa_initial"
       THEN /\ qa_attempt_index' = current_attempt
            /\ IF status # "pass"
               THEN /\ agent_session' = agent_result
                    /\ prompt_text' = build_retry_prompt("qa")
                    /\ NextAgentAttempt
                    /\ LeaveReview
                    /\ UNCHANGED <<qa_follow_counter, manager_session, manager_attempt>>
               ELSE /\ EnterManager(current_attempt)
                    /\ UNCHANGED <<outcome, attempt, prompt_text, agent_session>>
       ELSE /\ qa_follow_counter' = current_attempt
            /\ UNCHANGED qa_attempt_index
            /\ IF status # "pass"
               THEN /\ agent_session' = agent_result
                    /\ prompt_text' = build_retry_prompt(follow_up_issues(listed))
                    /\ NextAgentAttempt
                    /\ LeaveReview
                    /\ UNCHANGED <<manager_session, manager_attempt>>
               ELSE \* current_qa_review = qa_review; manager_attempt += 1; continue
                    /\ manager_attempt' = manager_attempt + 1
                    /\ pc' = "manager"
                    /\ review_phase' = "manager"
                    /\ review_attempt' = manager_attempt + 1
                    /\ session' = manager_session
                    /\ retry_index' = 0
                    /\ UNCHANGED <<outcome, attempt, prompt_text, agent_session, manager_session>>
    /\ UNCHANGED <<configVars, deliverable, agent_result>>

\* ------------------------------------------------------------------------
\* Primary Review: one invocation of _perform_manager_validation_with_retries
\* ------------------------------------------------------------------------
ManagerFail ==
    /\ pc = "manager"
    /\ UNCHANGED <<schedVars, pipeVars, botVars, parseVars>>
    /\ Observe("manager", session, FALSE, None, "gwfail", "none", "none", FALSE)
    /\ RetryReview(max_manager_attempts, "ManagerUnresolved", session_after_gateway_error(session))
    /\ UNCHANGED <<configVars, deliverable, attempt, prompt_text, agent_session, agent_result,
                   qa_session, qa_attempt_index, qa_follow_counter,
                   manager_session, manager_attempt>>

ManagerUnparsable(marker) ==
    /\ pc = "manager"
    /\ UNCHANGED <<schedVars, pipeVars, botVars, parseVars>>
    /\ LET sid == SessionId(marker, "manager", session) IN
       /\ Observe("manager", session, TRUE, sid, "unparsable", "none", "none", FALSE)
       /\ RetryReview(max_manager_attempts, "ManagerUnresolved", session_after_parse_error(sid))
    /\ UNCHANGED <<configVars, deliverable, attempt, prompt_text, agent_session, agent_result,
                   qa_session, qa_attempt_index, qa_follow_counter,
                   manager_session, manager_attempt>>

\* review.get fails with AttributeError on JSON that is not an object
ManagerNonDict(marker) ==
    /\ pc = "manager"
    /\ UNCHANGED <<schedVars, pipeVars, botVars, parseVars>>
    /\ LET sid == SessionId(marker, "manager", session) IN
       /\ Observe("manager", session, TRUE, sid, "nondict", "none", "none", FALSE)
       /\ manager_session' = sid
    /\ Raise("Crashed")
    /\ LeaveReview
    /\ UNCHANGED <<configVars, deliverable, attempt, prompt_text, agent_session, agent_result,
                   qa_session, qa_attempt_index, qa_follow_counter, manager_attempt>>

\* the review parsed; lines 618-701
ManagerVerdict(marker, status, next_actor) ==
    /\ pc = "manager"
    /\ UNCHANGED <<schedVars, pipeVars, botVars, parseVars>>
    /\ LET sid == SessionId(marker, "manager", session) IN
       /\ Observe("manager", session, TRUE, sid, "verdict", status, next_actor, FALSE)
       /\ manager_session' = sid
    /\ IF status = "pass"
       THEN \* _validate_backlog_resource_constraints returns []: return
            /\ pc' = "done"
            /\ outcome' = "Accepted"
            /\ LeaveReview
            /\ UNCHANGED <<attempt, prompt_text, agent_session, qa_follow_counter>>
       ELSE IF manager_attempt > manager_retry_limit
       THEN /\ Raise("ManagerExhausted")
            /\ LeaveReview
            /\ UNCHANGED <<attempt, prompt_text, agent_session, qa_follow_counter>>
       ELSE IF escalate_to_qa(effective_next_actor(next_actor))
       THEN \* qa_follow_counter += 1; _perform_qa_review_with_retries(
            \*     attempt=qa_follow_counter, resume_session=qa_session)
            /\ qa_follow_counter' = qa_follow_counter + 1
            /\ pc' = "qa"
            /\ review_phase' = "qa_follow"
            /\ review_attempt' = qa_follow_counter + 1
            /\ session' = qa_follow_resume
            /\ retry_index' = 0
            /\ UNCHANGED <<outcome, attempt, prompt_text, agent_session>>
       ELSE /\ agent_session' = agent_result
            /\ prompt_text' = build_retry_prompt("manager")
            /\ NextAgentAttempt
            /\ LeaveReview
            /\ UNCHANGED qa_follow_counter
    /\ UNCHANGED <<configVars, deliverable, agent_result, qa_session, qa_attempt_index, manager_attempt>>

Next ==
    \/ AgentFail
    \/ \E marker \in BOOLEAN, file \in FileStates : AgentOk(marker, file)
    \/ AcceptMissing
    \/ AcceptPresent
    \/ QAFail
    \/ \E marker \in BOOLEAN : QAUnparsable(marker)
    \/ \E marker \in BOOLEAN : QANonDict(marker)
    \/ \E marker \in BOOLEAN, status \in ReviewStatus : QAVerdict(marker, status, TRUE)
    \/ ManagerFail
    \/ \E marker \in BOOLEAN : ManagerUnparsable(marker)
    \/ \E marker \in BOOLEAN : ManagerNonDict(marker)
    \/ \E marker \in BOOLEAN, status \in ReviewStatus, next_actor \in NextActors :
           ManagerVerdict(marker, status, next_actor)

Spec == Init /\ [][Next]_vars

\* the run against a gateway whose output never carries a session marker
\* (every session id is None)
NextTally ==
    \/ AgentFail
    \/ \E file \in FileStates : AgentOk(FALSE, file)
    \/ AcceptMissing
    \/ AcceptPresent
    \/ QAFail
    \/ QAUnparsable(FALSE)
    \/ QANonDict(FALSE)
    \/ \E status \in ReviewStatus, listed \in BOOLEAN : QAVerdict(FALSE, status, listed)
    \/ ManagerFail
    \/ ManagerUnparsable(FALSE)
    \/ ManagerNonDict(FALSE)
    \/ \E status \in ReviewStatus, next_actor \in NextActors :
           ManagerVerdict(FALSE, status, next_actor)

SpecTally == InitTally /\ [][NextTally]_vars

SpecLedger == InitLedger /\ [][NextTally]_vars

SpecPrompt == InitPrompt /\ [][NextTally]_vars

\* the same call with the labels of the invocations observed
InitLabels == FlowStart /\ tally = [NoTally EXCEPT !.files = TRUE]

SpecLabels == InitLabels /\ [][NextTally]_vars

\* ========================================================================
\* Task Graph Scheduler and task loop
\* ========================================================================
TaskIds == 1..MaxTasks

Range(f) == {f[i] : i \in DOMAIN f}

\* keys of `index = {task.task_id: task for task in tasks}`
index_keys(ts) == {ts[i].task_id : i \in DOMAIN ts}

\* the <<task_id, dep>> pairs in the order in which the nested loops
\* `for task in tasks: for dep in task.deps:` visit them
RECURSIVE dep_pairs(_)
dep_pairs(ts) ==
    IF ts = <<>> THEN <<>>
    ELSE LET t == Head(ts) IN
         [k \in 1..Len(t.deps) |-> <<t.task_id, t.deps[k]>>] \o dep_pairs(Tail(ts))

\* indegree[task.task_id] += 1 for every pair
indegree_of(ts) ==
    LET pairs == dep_pairs(ts) IN
    [id \in index_keys(ts) |-> Cardinality({k \in DOMAIN pairs : pairs[k][1] = id})]

\* adjacency[dep].append(task.task_id) for every pair
RECURSIVE adjacency_list(_, _)
adjacency_list(pairs, dep) ==
    IF pairs = <<>> THEN <<>>
    ELSE (IF Head(pairs)[2] = dep THEN <<Head(pairs)[1]>> ELSE <<>>)
         \o adjacency_list(Tail(pairs), dep)

adjacency_of(ts) ==
    [dep \in index_keys(ts) |-> adjacency_list(dep_pairs(ts), dep)]

\* ready = [task_id for task_id, degree in indegree.items() if degree == 0]
\* (dict order: first occurrence in tasks)
RECURSIVE initial_ready(_, _, _)
initial_ready(ts, indegree, seen) ==
    IF ts = <<>> THEN <<>>
    ELSE LET id == Head(ts).task_id IN
         (IF id \notin seen /\ indegree[id] = 0 THEN <<id>> ELSE <<>>)
         \o initial_ready(Tail(ts), indegree, seen \cup {id})

\* heapq.heappop(ready): the smallest element of the heap
heappop_mut(ready) == ready[1]
heappop(ready) == CHOOSE x \in Range(ready) : \A y \in Range(ready) : x <= y

\* the heap without (one occurrence of) the popped element
heap_remove(ready, x) ==
    LET i == CHOOSE k \in DOMAIN ready : ready[k] = x /\ \A j \in 1..(k - 1) : ready[j] # x IN
    SubSeq(ready, 1, i - 1) \o SubSeq(ready, i + 1, Len(ready))

\* `if indegree[neighbor] == 0:` after the decrement
becomes_ready_mut(degree) == degree = 0 \/ degree = 1
becomes_ready(degree) == degree = 0

\* for neighbor in adjacency[current]: decrement, push when it reaches zero
RECURSIVE relax(_, _, _)
relax(neighbors, indegree, ready) ==
    IF neighbors = <<>> THEN [indegree |-> indegree, ready |-> ready]
    ELSE LET n == Head(neighbors)
             d == indegree[n] - 1
         IN relax(Tail(neighbors), [indegree EXCEPT ![n] = d],
                  IF becomes_ready(d) THEN Append(ready, n) ELSE ready)

\* while ready: current = heappop(ready); ordered_ids.append(current); ...
RECURSIVE kahn(_, _, _, _)
kahn(ready, indegree, adjacency, ordered_ids) ==
    IF ready = <<>> THEN ordered_ids
    ELSE LET current == heappop(ready)
             r == relax(adjacency[current], indegree, heap_remove(ready, current))
         IN kahn(r.ready, r.indegree, adjacency, Append(ordered_ids, current))

\* `if dep not in index: raise WorkflowError`
unknown_dependency(ts) ==
    \E k \in DOMAIN dep_pairs(ts) : dep_pairs(ts)[k][2] \notin index_keys(ts)

\* `if len(ordered_ids) != len(tasks): raise WorkflowError`
cycle_detected_mut(ordered_ids, ts) == FALSE
cycle_detected(ordered_ids, ts) == Len(ordered_ids) # Len(ts)

\* Workflow._topologically_sort: the order (as task ids) or the error raised
topologically_sort(ts) ==
    IF unknown_dependency(ts)
    THEN [error |-> "unknown_dependency", order |-> <<>>]
    ELSE LET indegree == indegree_of(ts)
             ordered_ids == kahn(initial_ready(ts, indegree, {}), indegree,
                                 adjacency_of(ts), <<>>)
         IN IF cycle_detected(ordered_ids, ts)
            THEN [error |-> "cyclic", order |-> <<>>]
            ELSE [error |-> "none", order |-> ordered_ids]

\* `observed_ids != expected_ids` is false: the ids are T-001..T-n in order
ids_as_expected_mut(ts) == TRUE
ids_as_expected(ts) == \A i \in DOMAIN ts : ts[i].task_id = i

\* Workflow._collect_tasks: duplicate ids and ids other than T-001..T-n in
\* that order are rejected, then the list is sorted
collect_tasks(ts) ==
    IF \E i, j \in DOMAIN ts : i < j /\ ts[i].task_id = ts[j].task_id
    THEN [error |-> "duplicate", order |-> <<>>]
    ELSE IF ~ids_as_expected(ts)
    THEN [error |-> "not_chronological", order |-> <<>>]
    ELSE topologically_sort(ts)

\* ------------------------------------------------------------------------
\* Inputs: a list of TaskEntry
\* ------------------------------------------------------------------------
\* ascending sequences (repeats allowed) of `len` numbers in lo..hi
RECURSIVE Ascending(_, _, _)
Ascending(len, lo, hi) ==
    IF len = 0 THEN {<<>>}
    ELSE UNION {{<<x>> \o s : s \in Ascending(len - 1, x, hi)} : x \in lo..hi}

\* the dependency reference <<position of the entry, dep>> numbered x
edge_at(x) == <<((x - 1) \div MaxTasks) + 1, ((x - 1) % MaxTasks) + 1>>

\* up to MaxEdges dependency references, grouped by entry; within an entry
\* the deps are listed in ascending order, and a dep may be listed twice
EdgeLists(n) ==
    UNION {{[k \in 1..len |-> edge_at(a[k])] : a \in Ascending(len, 1, n * MaxTasks)} :
           len \in 0..MaxEdges}

deps_at(e, i) ==
    LET sel == SelectSeq(e, LAMBDA x : x[1] = i) IN [k \in 1..Len(sel) |-> sel[k][2]]

\* a listing that repeats an identifier is rejected by _collect_tasks when
\* the second occurrence is read (line 815), before any deps are looked at
\* and before _topologically_sort is called: it is drawn without deps
repeats_id(listing) == \E i, j \in DOMAIN listing : i < j /\ listing[i] = listing[j]

BuildTasks(listing, e) ==
    [i \in 1..Len(listing) |-> [task_id |-> listing[i], deps |-> deps_at(e, i)]]

\* what a call of _execute_agent_flow can do to its caller: return after a
\* manager pass, return by running off the loop, raise WorkflowError, or
\* fail with another exception
FlowResults == {"Accepted", "FellThrough", "WorkflowError", "Crashed"}

\* the flow is not running
FlowIdle ==
    /\ agent_retry_limit = 0
    /\ manager_retry_limit = 0
    /\ qa_retry_limit = 0
    /\ enable_qa = FALSE
    /\ pc = "idle"
    /\ outcome = "idle"
    /\ deliverable = "absent"
    /\ attempt = 0
    /\ prompt_text = "initial"
    /\ agent_session = None
    /\ agent_result = None
    /\ qa_session = None
    /\ qa_attempt_index = 0
    /\ qa_follow_counter = 0
    /\ manager_session = None
    /\ manager_attempt = 0
    /\ review_phase = "none"
    /\ review_attempt = 0
    /\ session = None
    /\ retry_index = 0
    /\ agent_calls = 0
    /\ last = [r \in Roles |-> NoInvocation]
    /\ lastEvent = NoEvent
    /\ managerVerdict = "none"
    /\ tally = NoTally

InitSched ==
    /\ FlowIdle
    /\ PipeIdle
    /\ BotIdle
    /\ ParseIdle
    /\ \E n \in 0..MaxTasks :
         \E listing \in [1..n -> TaskIds] :
            \E e \in IF repeats_id(listing) THEN {<<>>} ELSE EdgeLists(n) :
               tasks = BuildTasks(listing, e)
    /\ sched_pc = "input"
    /\ sched_error = "none"
    /\ ordered = <<>>
    /\ processed_tasks = {}
    /\ reprocess_tasks = FALSE
    /\ max_tasks = -1
    /\ unroutable = {}
    /\ loop_index = 0
    /\ count = 0
    /\ handed = <<>>
    /\ accepted = {}
    /\ completed_before = {}
    /\ failed = {}
    /\ owner = <<>>

\* ------------------------------------------------------------------------
\* Actions
\* ------------------------------------------------------------------------
\* a call of _topologically_sort on the list
SortCall ==
    /\ sched_pc = "input"
    /\ LET r == topologically_sort(tasks) IN
       /\ sched_error' = r.error
       /\ ordered' = r.order
       /\ sched_pc' = IF r.error = "none" THEN "sorted" ELSE "rejected"
    /\ UNCHANGED <<tasks, processed_tasks, reprocess_tasks, max_tasks, unroutable,
                   loop_index, count, handed, accepted, completed_before, failed, owner>>
    /\ UNCHANGED <<flowVars, pipeVars, botVars, parseVars>>

\* _run_task_loop, lines 1084-1088: self._collect_tasks() raises
\* WorkflowError, which leaves _run_task_loop before any task is looked at
TaskLoopRejected ==
    /\ sched_pc = "input"
    /\ LET r == collect_tasks(tasks) IN
       /\ r.error # "none"
       /\ sched_error' = r.error
    /\ ordered' = <<>>
    /\ sched_pc' = "rejected"
    /\ UNCHANGED <<tasks, processed_tasks, reprocess_tasks, max_tasks, unroutable,
                   loop_index, count, handed, accepted, completed_before, failed, owner>>
    /\ UNCHANGED <<flowVars, pipeVars, botVars, parseVars>>

\* `if not tasks: return`
TaskLoopEmpty ==
    /\ sched_pc = "input"
    /\ tasks = <<>>
    /\ collect_tasks(tasks).error = "none"
    /\ sched_pc' = "finished"
    /\ UNCHANGED <<tasks, sched_error, ordered, processed_tasks, reprocess_tasks,
                   max_tasks, unroutable, loop_index, count, handed, accepted, completed_before, failed, owner>>
    /\ UNCHANGED <<flowVars, pipeVars, botVars, parseVars>>

\* the for loop starts.  The Workflow's attributes when it starts:
\* processed_tasks (loaded from processed_tasks.json), reprocess_tasks and
\* max_tasks (-1: no --max-tasks given).
StartTaskLoop ==
    /\ sched_pc = "input"
    /\ LET r == collect_tasks(tasks) IN
       /\ r.error = "none"
       /\ r.order # <<>>
       /\ ordered' = r.order
    /\ sched_error' = "none"
    /\ sched_pc' = "loop"
    /\ loop_index' = 1
    /\ processed_tasks' \in SUBSET index_keys(tasks)
    /\ completed_before' = processed_tasks'
    /\ reprocess_tasks' \in BOOLEAN
    /\ max_tasks' \in {-1, 1}
    /\ UNCHANGED <<tasks, unroutable, count, handed, accepted, failed, owner>>
    /\ UNCHANGED <<flowVars, pipeVars, botVars, parseVars>>

\* the task of the current iteration
task == ordered[loop_index]

\* `if not self.reprocess_tasks and task.task_id in self.processed_tasks`
already_processed_mut == FALSE
already_processed == ~reprocess_tasks /\ task \in processed_tasks

limit_reached == max_tasks # -1 /\ count >= max_tasks

\* `continue`, or the end of the loop body
NextTask ==
    IF loop_index < Len(ordered)
    THEN loop_index' = loop_index + 1 /\ sched_pc' = "loop"
    ELSE loop_index' = loop_index /\ sched_pc' = "finished"

\* lines 1093-1095
SkipProcessed ==
    /\ sched_pc = "loop"
    /\ already_processed
    /\ NextTask
    /\ UNCHANGED <<tasks, sched_error, ordered, processed_tasks, reprocess_tasks,
                   max_tasks, unroutable, count, handed, accepted, completed_before, failed, owner>>
    /\ UNCHANGED <<flowVars, pipeVars, botVars, parseVars>>

\* lines 1097-1099
StopAtMaxTasks ==
    /\ sched_pc = "loop"
    /\ ~already_processed
    /\ limit_reached
    /\ sched_pc' = "finished"
    /\ UNCHANGED <<tasks, sched_error, ordered, processed_tasks, reprocess_tasks,
                   max_tasks, unroutable, loop_index, count, handed, accepted, completed_before, failed, owner>>
    /\ UNCHANGED <<flowVars, pipeVars, botVars, parseVars>>

\* The owner of a task after .strip().lower(), as the list of its maximal
\* runs of letters a-z (owner_tokens); owner_compact is their concatenation.
\* The owners told apart: empty, one word that is no key, a key after a
\* word that is no key, and two keys whose concatenation is a key as well.
Owners == {<<>>, <<"marketing">>, <<"marketing", "dev">>, <<"dev", "ops">>}

\* OWNER_TOKEN_MAP.get(candidate), the candidate given as the words it is
\* made of: "dev" -> module_developer, "ops" and "devops" -> release
owner_token_key(candidate) ==
    IF candidate = <<"dev">> THEN "module_developer"
    ELSE IF candidate = <<"ops">> THEN "release"
    ELSE IF candidate = <<"dev", "ops">> THEN "release"
    ELSE "none"

\* [owner_compact, *owner_tokens]
owner_candidates(o) == <<o>> \o [k \in 1..Len(o) |-> <<o[k]>>]

\* the for loop over the candidates from position k on: the key of the first
\* candidate that the map knows, None when there is none
RECURSIVE first_mapped(_, _)
first_mapped(cands, k) ==
    IF k > Len(cands) THEN "none"
    ELSE IF owner_token_key(cands[k]) # "none" THEN owner_token_key(cands[k])
    ELSE first_mapped(cands, k + 1)

\* Workflow._resolve_supporting_prompt_for_owner
resolve_supporting_prompt_for_owner_mut(o) ==
    IF first_mapped(owner_candidates(o), 1) = "none" THEN "module_developer"
    ELSE first_mapped(owner_candidates(o), 1)
resolve_supporting_prompt_for_owner(o) ==
    IF o = <<>> THEN "none" ELSE first_mapped(owner_candidates(o), 1)

\* Workflow._select_prompt_for_task
select_prompt_for_task(o) == resolve_supporting_prompt_for_owner(o)

\* lines 1101-1104: _select_prompt_for_task returns None for the owner of
\* the task (the owner is read here and nowhere else in the loop)
SkipUnroutable ==
    /\ sched_pc = "loop"
    /\ ~already_processed
    /\ ~limit_reached
    /\ owner' \in Owners
    /\ select_prompt_for_task(owner') = "none"
    /\ unroutable' = unroutable \cup {task}
    /\ NextTask
    /\ UNCHANGED <<tasks, sched_error, ordered, processed_tasks, reprocess_tasks,
                   max_tasks, count, handed, accepted, completed_before, failed>>
    /\ UNCHANGED <<flowVars, pipeVars, botVars, parseVars>>

\* the call of _execute_agent_flow at lines 1128-1138 returned (by a manager
\* pass or by running off its loop) instead of raising
flow_returned_mut(result) == TRUE
flow_returned(result) == result \in {"Accepted", "FellThrough"}

\* lines 1106-1142: a prompt is mapped for the owner and the task is handed
\* to _execute_agent_flow; when the call returns the task is added to
\* processed_tasks, when it raises the exception leaves _run_task_loop
RunTask(result) ==
    /\ sched_pc = "loop"
    /\ ~already_processed
    /\ ~limit_reached
    /\ owner' \in Owners
    /\ select_prompt_for_task(owner') # "none"
    /\ handed' = Append(handed, task)
    /\ accepted' = IF result = "Accepted" THEN accepted \cup {task} ELSE accepted
    /\ failed' = IF result = "WorkflowError" THEN failed \cup {task} ELSE failed
    /\ IF flow_returned(result)
       THEN /\ processed_tasks' = processed_tasks \cup {task}
            /\ count' = count + 1
            /\ NextTask
       ELSE /\ sched_pc' = "halted"
            /\ UNCHANGED <<processed_tasks, count, loop_index>>
    /\ UNCHANGED <<tasks, sched_error, ordered, reprocess_tasks, max_tasks, unroutable,
                   completed_before>>
    /\ UNCHANGED <<flowVars, pipeVars, botVars, parseVars>>

NextSched ==
    \/ SortCall
    \/ TaskLoopRejected
    \/ TaskLoopEmpty
    \/ StartTaskLoop
    \/ SkipProcessed
    \/ StopAtMaxTasks
    \/ SkipUnroutable
    \/ \E result \in FlowResults : RunTask(result)

SpecSched == InitSched /\ [][NextSched]_vars

\* ========================================================================
\* Stage pipelines: _run_bug_pipeline and _run_feedback_pipeline
\* ========================================================================
Pipelines == {"bug", "feedback"}

\* keys of stage_to_prompt, in the order of the pipeline
stage_sequence(p) ==
    IF p = "bug" THEN <<"intake", "triage", "repro">> ELSE <<"intake", "review", "plan">>

\* values of (result_data.get("status") or "").lower(): the statuses the
\* lookup of either pipeline names, of which "triaged" is named by the bug
\* pipeline only and "reviewed" by the feedback pipeline only
StageStatuses(p) ==
    {"needs_info", "blocked", "duplicate", "rejected"}
        \cup (IF p = "bug" THEN {"triaged"} ELSE {"reviewed"})

\* _load_bug_state / _load_feedback_state for a directory without state.json
\* (awaiting_reason "none": the key is not in the dict)
FreshState ==
    [stored |-> FALSE, pending_stage |-> "intake", awaiting_human |-> FALSE,
     awaiting_reason |-> "none", history |-> <<>>]

\* `status in {"duplicate", "rejected"}`
closes_item_mut(status) == status = "rejected"
closes_item(status) == status \in {"duplicate", "rejected"}

\* history.append(...), state.pop("awaiting_reason"), awaiting_human = False
logged_mut(stage, status, state) ==
    [state EXCEPT !.history = <<<<stage, status>>>>,
                  !.awaiting_reason = "none",
                  !.awaiting_human = FALSE]
logged(stage, status, state) ==
    [state EXCEPT !.history = Append(@, <<stage, status>>),
                  !.awaiting_reason = "none",
                  !.awaiting_human = FALSE]

\* pending_stage = stage, awaiting_human = True, awaiting_reason = reason
waiting_at_mut(st, reason, state) ==
    [state EXCEPT !.pending_stage = st, !.awaiting_human = TRUE]
waiting_at(st, reason, state) ==
    [state EXCEPT !.pending_stage = st, !.awaiting_human = TRUE, !.awaiting_reason = reason]

moved_to(st, state) == [state EXCEPT !.pending_stage = st]

\* Workflow._update_bug_state_after_stage, lines 1343-1384
update_bug_state_after_stage(stage, status, state) ==
    LET s1 == logged(stage, status, state) IN
    IF stage = "intake" THEN
        IF status = "needs_info" THEN waiting_at("intake", "needs_info", s1)
        ELSE moved_to("triage", s1)
    ELSE IF stage = "triage" THEN
        IF status = "needs_info" THEN waiting_at("triage", "needs_info", s1)
        ELSE IF closes_item(status) THEN moved_to("done", s1)
        ELSE IF status = "triaged" THEN moved_to("repro", s1)
        ELSE moved_to("repro", s1)
    ELSE IF stage = "repro" THEN
        IF status = "blocked" THEN waiting_at("repro", "blocked", s1)
        ELSE moved_to("done", s1)
    ELSE moved_to("done", s1)

\* Workflow._update_feedback_state_after_stage, lines 1408-1449
update_feedback_state_after_stage(stage, status, state) ==
    LET s1 == logged(stage, status, state) IN
    IF stage = "intake" THEN
        IF status = "needs_info" THEN waiting_at("intake", "needs_info", s1)
        ELSE moved_to("review", s1)
    ELSE IF stage = "review" THEN
        IF status = "needs_info" THEN waiting_at("review", "needs_info", s1)
        ELSE IF closes_item(status) THEN moved_to("done", s1)
        ELSE IF status = "reviewed" THEN moved_to("plan", s1)
        ELSE moved_to("plan", s1)
    ELSE IF stage = "plan" THEN
        IF status = "blocked" THEN waiting_at("plan", "blocked", s1)
        ELSE moved_to("done", s1)
    ELSE moved_to("done", s1)

update_state_after_stage(stage, status, state) ==
    IF pipeline = "bug" THEN update_bug_state_after_stage(stage, status, state)
    ELSE update_feedback_state_after_stage(stage, status, state)

\* `if state.get("awaiting_human"): continue`
skip_awaiting_mut(state) == FALSE
skip_awaiting(state) == state.awaiting_human

\* _build_bug_context / _build_feedback_context return None: the intake
\* stage needs submission.json; a later stage needs intake.json, which
\* _update_*_state_after_stage has read when it recorded the intake stage
context_missing(i, stage) == stage = "intake" /\ ~has_submission[i]

\* the number of stage results recorded in all histories
RECURSIVE recorded_upto(_)
recorded_upto(i) ==
    IF i = 0 THEN 0 ELSE Len(stage_state[i].history) + recorded_upto(i - 1)

recorded == recorded_upto(n_items)

InitPipe ==
    /\ FlowIdle
    /\ SchedIdle
    /\ BotIdle
    /\ ParseIdle
    /\ pipeline \in Pipelines
    /\ n_items \in 0..MaxItems
    /\ stage_state = [i \in 1..n_items |-> FreshState]
    /\ has_submission \in [1..n_items -> BOOLEAN]
    /\ pipe_pc = "idle"
    /\ item_index = 0
    /\ stage_runs = [i \in 1..n_items |-> {}]
    /\ pipe_event = NoStep

\* ------------------------------------------------------------------------
\* Actions
\* ------------------------------------------------------------------------
\* a pass starts: `for bug_dir in sorted(...)`
StartPass ==
    /\ pipe_pc = "idle"
    /\ n_items > 0
    /\ pipe_pc' = "loop"
    /\ item_index' = 1
    /\ pipe_event' = NoStep
    /\ UNCHANGED <<pipeline, n_items, stage_state, has_submission, stage_runs>>
    /\ UNCHANGED <<flowVars, schedVars, botVars, parseVars>>

\* lines 926-932: the state as loaded, written to state.json when the file
\* does not exist yet
loaded_state == [stage_state[item_index] EXCEPT !.stored = TRUE]

\* pending_stage = state.get("pending_stage") or "intake"
pending_stage == loaded_state.pending_stage

\* `continue`, or the end of the loop body
NextItem ==
    IF item_index < n_items
    THEN item_index' = item_index + 1 /\ pipe_pc' = "loop"
    ELSE item_index' = item_index /\ pipe_pc' = "idle"

\* a step of the loop that stores `state` for the current item, with or
\* without a call of _execute_agent_flow for the pending stage
\* (flow: how that call ended, "none" without a call)
ItemStep(kind, status, state, flow) ==
    /\ stage_state' = [stage_state EXCEPT ![item_index] = state]
    /\ stage_runs' = [stage_runs EXCEPT ![item_index] =
                         IF flow # "none" THEN @ \cup {pending_stage} ELSE @]
    /\ pipe_event' = [item |-> item_index, kind |-> kind, stage |-> pending_stage,
                      status |-> status, flow |-> flow]
    /\ UNCHANGED <<pipeline, n_items, has_submission>>
    /\ UNCHANGED <<flowVars, schedVars, botVars, parseVars>>

\* `if pending_stage == "done": continue`
is_done_mut(stage) == FALSE
is_done(stage) == stage = "done"

\* lines 935-936
SkipDone ==
    /\ pipe_pc = "loop"
    /\ is_done(pending_stage)
    /\ ItemStep("skip_done", "none", loaded_state, "none")
    /\ NextItem

\* lines 937-938
SkipAwaiting ==
    /\ pipe_pc = "loop"
    /\ ~is_done(pending_stage)
    /\ skip_awaiting(loaded_state)
    /\ ItemStep("skip_awaiting", "none", loaded_state, "none")
    /\ NextItem

Runnable ==
    /\ pipe_pc = "loop"
    /\ ~is_done(pending_stage)
    /\ ~skip_awaiting(loaded_state)

\* lines 951-958
SkipNoContext ==
    /\ Runnable
    /\ context_missing(item_index, pending_stage)
    /\ ItemStep("skip_context", "none", loaded_state, "none")
    /\ NextItem

\* `except WorkflowError: ... continue` (lines 981-983, 1067-1069): nothing
\* is recorded and nothing is saved
state_after_fatal_mut(state) == logged(pending_stage, "failed", state)
state_after_fatal(state) == state

\* lines 970-983: _execute_agent_flow raises WorkflowError
StageFatal ==
    /\ Runnable
    /\ ~context_missing(item_index, pending_stage)
    /\ ItemStep("fatal", "none", state_after_fatal(loaded_state), "WorkflowError")
    /\ NextItem

\* _execute_agent_flow fails with another exception, which leaves the
\* pipeline and Workflow.run
StageCrashed ==
    /\ Runnable
    /\ ~context_missing(item_index, pending_stage)
    /\ ItemStep("crash", "none", loaded_state, "Crashed")
    /\ pipe_pc' = "aborted"
    /\ item_index' = item_index

\* lines 985-993: the flow returned, and the result file of the stage is
\* missing or is not valid JSON
StageUpdateFailed(flow_result) ==
    /\ Runnable
    /\ ~context_missing(item_index, pending_stage)
    /\ flow_result \in {"Accepted", "FellThrough"}
    /\ ItemStep("update_failed", "none", loaded_state, flow_result)
    /\ NextItem

\* lines 985-995: the flow returned, the result file carries `status`; the
\* state is updated and saved
StageCompleted(flow_result, status) ==
    /\ Runnable
    /\ ~context_missing(item_index, pending_stage)
    /\ flow_result \in {"Accepted", "FellThrough"}
    /\ recorded < MaxStageRuns
    /\ ItemStep("completed", status,
                update_state_after_stage(pending_stage, status, loaded_state), flow_result)
    /\ NextItem

\* between passes a person clears awaiting_human in state.json
HumanClears(i) ==
    /\ pipe_pc = "idle"
    /\ stage_state[i].awaiting_human
    /\ stage_state' = [stage_state EXCEPT ![i].awaiting_human = FALSE,
                                          ![i].awaiting_reason = "none"]
    /\ pipe_event' = [item |-> i, kind |-> "human", stage |-> "none", status |-> "none", flow |-> "none"]
    /\ UNCHANGED <<pipeline, n_items, has_submission, pipe_pc, item_index, stage_runs>>
    /\ UNCHANGED <<flowVars, schedVars, botVars, parseVars>>

\* between passes the raw report of an item arrives
HumanSubmits(i) ==
    /\ pipe_pc = "idle"
    /\ ~has_submission[i]
    /\ has_submission' = [has_submission EXCEPT ![i] = TRUE]
    /\ pipe_event' = [item |-> i, kind |-> "human", stage |-> "none", status |-> "none", flow |-> "none"]
    /\ UNCHANGED <<pipeline, n_items, stage_state, pipe_pc, item_index, stage_runs>>
    /\ UNCHANGED <<flowVars, schedVars, botVars, parseVars>>

NextPipe ==
    \/ StartPass
    \/ SkipDone
    \/ SkipAwaiting
    \/ SkipNoContext
    \/ StageFatal
    \/ StageCrashed
    \/ \E flow_result \in FlowResults : StageUpdateFailed(flow_result)
    \/ \E flow_result \in FlowResults : \E status \in StageStatuses(pipeline) :
          StageCompleted(flow_result, status)
    \/ \E i \in 1..n_items : HumanClears(i)
    \/ \E i \in 1..n_items : HumanSubmits(i)

SpecPipe == InitPipe /\ [][NextPipe]_vars

\* ========================================================================
\* The Telegram bot and the workflow process it starts and stops
\* (src/tools/telegram_bot/bot.py).  The handlers and the monitor tasks are
\* coroutines of one event loop: a step runs from one await to the next.
\* Updates are handled one at a time (the application is built without
\* concurrent_updates), the monitor tasks run between the awaits of a handler.
\* ========================================================================
\* process.poll() is None
is_running(p) == processes[p] = "running"

\* the processes started by the bot that are alive
alive == {p \in DOMAIN processes : is_running(p)}

\* _cleanup_finished_process: the value of WORKFLOW_PROCESS after the call.
\* Only the exit code and the log handle are dealt with under
\* `if WORKFLOW_PROCESS and WORKFLOW_PROCESS.poll() is not None`; the
\* assignment WORKFLOW_PROCESS = None follows the if block and is made in
\* every call.
cleanup_finished_process(process) ==
    LET exit_code_kept == process # 0 /\ ~is_running(process)
    IN  IF exit_code_kept THEN 0 ELSE 0

\* _cancel_workflow_monitor: task.cancel() when the task is not done (the
\* task sees the CancelledError when it runs next); the caller sets
\* WORKFLOW_MONITOR_TASK to None
cancel_workflow_monitor(ms, t) ==
    IF t # 0 /\ ms[t].pc # "done" THEN [ms EXCEPT ![t].pc = "cancelling"] ELSE ms

\* _ensure_workflow_monitor: the monitor tasks and WORKFLOW_MONITOR_TASK
\* after the call
ensure_workflow_monitor(ms, t, process) ==
    IF t # 0 /\ ms[t].pc # "done" THEN [tasks |-> ms, task |-> t]
    ELSE IF process = 0 THEN [tasks |-> ms, task |-> t]
    ELSE [tasks |-> Append(ms, [process |-> process, pc |-> "waiting"]),
          task |-> Len(ms) + 1]

\* the event loop runs the callbacks it has scheduled in order: a monitor
\* task that was cancelled or that was handed the lock runs before the
\* next step of a handler
NoMonitorDue ==
    \A k \in DOMAIN monitors :
        /\ monitors[k].pc # "cancelling"
        /\ monitors[k].pc = "lock" => WORKFLOW_LOCK # "free"

InitBot ==
    /\ FlowIdle
    /\ SchedIdle
    /\ PipeIdle
    /\ BotIdle
    /\ ParseIdle

\* ------------------------------------------------------------------------
\* Actions
\* ------------------------------------------------------------------------
\* _start_workflow_core, lines 1655-1701, up to its first `await send`
\* (popen_ok: subprocess.Popen returned a process)
StartWorkflow(popen_ok) ==
    /\ handler_pc = "idle"
    /\ WORKFLOW_LOCK = "free"
    /\ NoMonitorDue
    /\ monitors' = cancel_workflow_monitor(monitors, WORKFLOW_MONITOR_TASK)
    /\ WORKFLOW_MONITOR_TASK' = 0
    /\ WORKFLOW_LOCK' = "handler"
    /\ LET process == cleanup_finished_process(WORKFLOW_PROCESS) IN
       IF process # 0 /\ is_running(process)
       THEN /\ handler_pc' = "start_already_running"
            /\ WORKFLOW_PROCESS' = process
            /\ processes' = processes
       ELSE IF popen_ok /\ Len(processes) < MaxProcesses
       THEN /\ handler_pc' = "start_started"
            /\ processes' = Append(processes, "running")
            /\ WORKFLOW_PROCESS' = Len(processes) + 1
       ELSE /\ handler_pc' = "start_failed"
            /\ WORKFLOW_PROCESS' = process
            /\ processes' = processes
    /\ UNCHANGED <<flowVars, schedVars, pipeVars, parseVars>>

\* _stop_workflow_core, lines 1724-1752, up to its first await
StopWorkflow ==
    /\ handler_pc = "idle"
    /\ WORKFLOW_LOCK = "free"
    /\ NoMonitorDue
    /\ WORKFLOW_LOCK' = "handler"
    /\ LET process == cleanup_finished_process(WORKFLOW_PROCESS) IN
       IF process = 0
       THEN /\ handler_pc' = "stop_nothing_running"
            /\ WORKFLOW_PROCESS' = process
       ELSE IF ~is_running(process)
       THEN /\ handler_pc' = "stop_already_stopped"
            /\ WORKFLOW_PROCESS' = cleanup_finished_process(process)
       ELSE \* process.terminate(), then the wait in the executor
            /\ handler_pc' = "stop_terminating"
            /\ WORKFLOW_PROCESS' = process
    /\ UNCHANGED <<processes, WORKFLOW_MONITOR_TASK, monitors>>
    /\ UNCHANGED <<flowVars, schedVars, pipeVars, parseVars>>

\* the handler goes on after its await: a stop that waited for the process
\* cleans up and sends its message (lines 1760-1762); a handler whose
\* message is sent leaves the lock, and a start with a process registers
\* the observer (lines 1662-1664, 1712-1713)
HandlerResumes ==
    /\ handler_pc # "idle"
    /\ NoMonitorDue
    /\ IF handler_pc = "stop_terminating"
       THEN /\ processes' = [processes EXCEPT ![WORKFLOW_PROCESS] = "exited"]
            /\ WORKFLOW_PROCESS' = cleanup_finished_process(WORKFLOW_PROCESS)
            /\ handler_pc' = "stop_terminated"
            /\ UNCHANGED <<WORKFLOW_MONITOR_TASK, monitors, WORKFLOW_LOCK>>
       ELSE /\ handler_pc' = "idle"
            /\ WORKFLOW_LOCK' = "free"
            /\ LET r == IF handler_pc \in {"start_started", "start_already_running"}
                        THEN ensure_workflow_monitor(monitors, WORKFLOW_MONITOR_TASK,
                                                     WORKFLOW_PROCESS)
                        ELSE [tasks |-> monitors, task |-> WORKFLOW_MONITOR_TASK]
               IN  monitors' = r.tasks /\ WORKFLOW_MONITOR_TASK' = r.task
            /\ UNCHANGED <<processes, WORKFLOW_PROCESS>>
    /\ UNCHANGED <<flowVars, schedVars, pipeVars, parseVars>>

\* a workflow process ends by itself
ProcessExits(p) ==
    /\ is_running(p)
    /\ processes' = [processes EXCEPT ![p] = "exited"]
    /\ UNCHANGED <<WORKFLOW_PROCESS, WORKFLOW_MONITOR_TASK, monitors, WORKFLOW_LOCK, handler_pc>>
    /\ UNCHANGED <<flowVars, schedVars, pipeVars, parseVars>>

\* _wait_for_workflow_exit, lines 1590-1593: process.wait returned; with
\* the lock free the task cleans up at once, else it waits for the lock
MonitorWaitReturns(k) ==
    /\ monitors[k].pc = "waiting"
    /\ ~is_running(monitors[k].process)
    /\ IF WORKFLOW_LOCK = "free"
       THEN /\ WORKFLOW_PROCESS' = cleanup_finished_process(WORKFLOW_PROCESS)
            /\ monitors' = [monitors EXCEPT ![k].pc = "broadcast"]
       ELSE /\ WORKFLOW_PROCESS' = WORKFLOW_PROCESS
            /\ monitors' = [monitors EXCEPT ![k].pc = "lock"]
    /\ UNCHANGED <<processes, WORKFLOW_MONITOR_TASK, WORKFLOW_LOCK, handler_pc>>
    /\ UNCHANGED <<flowVars, schedVars, pipeVars, parseVars>>

\* lines 1591-1594: the task gets the lock, cleans up and leaves the lock
MonitorLockAcquired(k) ==
    /\ monitors[k].pc = "lock"
    /\ WORKFLOW_LOCK = "free"
    /\ WORKFLOW_PROCESS' = cleanup_finished_process(WORKFLOW_PROCESS)
    /\ monitors' = [monitors EXCEPT ![k].pc = "broadcast"]
    /\ UNCHANGED <<processes, WORKFLOW_MONITOR_TASK, WORKFLOW_LOCK, handler_pc>>
    /\ UNCHANGED <<flowVars, schedVars, pipeVars, parseVars>>

\* lines 1595-1599: the broadcast is over, or the task sees its
\* CancelledError; `finally: WORKFLOW_MONITOR_TASK = None`
MonitorEnds(k) ==
    /\ monitors[k].pc \in {"broadcast", "cancelling"}
    /\ monitors' = [monitors EXCEPT ![k].pc = "done"]
    /\ WORKFLOW_MONITOR_TASK' = 0
    /\ UNCHANGED <<processes, WORKFLOW_PROCESS, WORKFLOW_LOCK, handler_pc>>
    /\ UNCHANGED <<flowVars, schedVars, pipeVars, parseVars>>

NextBot ==
    \/ \E popen_ok \in BOOLEAN : StartWorkflow(popen_ok)
    \/ StopWorkflow
    \/ HandlerResumes
    \/ \E p \in DOMAIN processes : ProcessExits(p)
    \/ \E k \in DOMAIN monitors : MonitorWaitReturns(k)
    \/ \E k \in DOMAIN monitors : MonitorLockAcquired(k)
    \/ \E k \in DOMAIN monitors : MonitorEnds(k)

SpecBot == InitBot /\ [][NextBot]_vars

\* ========================================================================
\* Reading an output file: src/platform/automation/parsing.py
\* A text is the list of its tokens: the brackets of JSON, "n" for the
\* literal null, "x" for a word of commentary and "F" for a ``` fence (with
\* or without the word json after it).  The JSON values of these texts are
\* null, {}, [] and [v] for a value v.
\* ========================================================================
Tokens == {"{", "}", "[", "]", "n", "x", "F"}

RECURSIVE TextsOfLen(_)
TextsOfLen(n) ==
    IF n = 0 THEN {<<>>} ELSE {Append(t, c) : t \in TextsOfLen(n - 1), c \in Tokens}

Texts == UNION {TextsOfLen(n) : n \in 0..MaxTextLen}

\* strip_json_content: the text between an opening fence at the start and
\* a closing fence at the end, else the text itself
strip_json_content_mut(payload) == payload
strip_json_content(payload) ==
    IF Len(payload) >= 2 /\ payload[1] = "F" /\ payload[Len(payload)] = "F"
    THEN SubSeq(payload, 2, Len(payload) - 1)
    ELSE payload

\* decoder.raw_decode(payload[idx:]): the position after the value that
\* starts at idx, 0 when none decodes there (JSONDecodeError)
RECURSIVE raw_decode(_, _)
raw_decode(payload, idx) ==
    IF idx > Len(payload) THEN 0
    ELSE IF payload[idx] = "n" THEN idx + 1
    ELSE IF payload[idx] = "{" THEN
        IF idx + 1 <= Len(payload) /\ payload[idx + 1] = "}" THEN idx + 2 ELSE 0
    ELSE IF payload[idx] = "[" THEN
        IF idx + 1 <= Len(payload) /\ payload[idx + 1] = "]" THEN idx + 2
        ELSE LET end == raw_decode(payload, idx + 1) IN
             IF end # 0 /\ end <= Len(payload) /\ payload[end] = "]" THEN end + 1 ELSE 0
    ELSE 0

\* json.loads: the value when the whole text is one value
json_loads(text) ==
    IF raw_decode(text, 1) = Len(text) + 1
    THEN [kind |-> "value", value |-> text]
    ELSE [kind |-> "JSONDecodeError", value |-> <<>>]

\* _extract_json_object: the while loop from idx on
RECURSIVE extract_from(_, _)
extract_from(payload, idx) ==
    IF idx > Len(payload) THEN [kind |-> "None", value |-> <<>>]
    ELSE IF payload[idx] \in {"{", "["} /\ raw_decode(payload, idx) # 0
    THEN [kind |-> "value", value |-> SubSeq(payload, idx, raw_decode(payload, idx) - 1)]
    ELSE extract_from(payload, idx + 1)

extract_json_object_mut(payload) ==
    IF payload # <<>> /\ extract_from(payload, 2).kind = "value"
    THEN extract_from(payload, 2) ELSE extract_from(payload, 1)
extract_json_object(payload) == extract_from(payload, 1)

\* read_agent_output for a file that exists
read_agent_output(raw) ==
    LET json_text == strip_json_content(raw)
        loaded == json_loads(json_text)
        fallback == extract_json_object(json_text)
    IN  IF loaded.kind = "value" THEN loaded
        ELSE IF fallback.kind # "None" THEN fallback
        ELSE [kind |-> "InvalidAgentResponseError", value |-> json_text]

InitParse ==
    /\ FlowIdle
    /\ SchedIdle
    /\ PipeIdle
    /\ BotIdle
    /\ raw_text \in Texts
    /\ read_result = NotRead

ReadAgentOutput ==
    /\ read_result = NotRead
    /\ read_result' = read_agent_output(raw_text)
    /\ UNCHANGED raw_text
    /\ UNCHANGED <<flowVars, schedVars, pipeVars, botVars>>

NextParse == ReadAgentOutput

SpecParse == InitParse /\ [][NextParse]_vars

\* ========================================================================
\* Properties of the execution state machine
\* ========================================================================
Fatal == {"AgentExhausted", "QAUnresolved", "ManagerUnresolved", "ManagerExhausted"}

ReturnedNormally == pc = "done" /\ outcome \in {"Accepted", "FellThrough"}

\* a step that is one gateway invocation of the given role
Invokes(role) ==
    /\ pc = (IF role = "agent" THEN "agent" ELSE IF role = "qa" THEN "qa" ELSE "manager")
    /\ lastEvent'.role = role

\* C1: a run returns normally only when the last Primary Review verdict was
\* pass, and every run that ends without a manager pass ends with one of the
\* fatal errors AgentExhausted, QAUnresolved, ManagerUnresolved,
\* ManagerExhausted.
C1_ReturnsOnlyAfterManagerPass ==
    pc = "done" =>
        /\ (ReturnedNormally => managerVerdict = "pass")
        /\ (managerVerdict # "pass" => outcome \in Fatal)

\* C5: one run invokes the executor at most agentRetries + 1 times, and an
\* executor invocation that returns from the gateway (in particular the one
\* that follows k <= agentRetries transport failures) is followed at once by
\* the Acceptance Check.
C5_AgentAttemptsBounded ==
    /\ [](agent_calls <= agent_retry_limit + 1)
    /\ [][Invokes("agent") /\ lastEvent'.kind = "ok" => pc' = "accept"]_vars

\* C5 witness: with agentRetries >= 2, every invocation but the last failed
\* at transport level (the prompt is still the original one) and the
\* Acceptance Check is about to run after invocation agentRetries + 1.
C5_Witness ==
    /\ pc = "accept"
    /\ agent_retry_limit >= 2
    /\ agent_calls = agent_retry_limit + 1
    /\ prompt_text = "initial"

\* a Primary Review step returning fail with next_actor = qa while the
\* secondary reviewer is enabled
ManagerFailsToQA ==
    /\ Invokes("manager")
    /\ lastEvent'.kind = "verdict"
    /\ lastEvent'.status = "fail"
    /\ lastEvent'.next_actor = "qa"
    /\ enable_qa

\* a follow-up QA invocation that returns a parsed review
FollowUpQAVerdict ==
    /\ Invokes("qa")
    /\ review_phase = "qa_follow"
    /\ lastEvent'.kind = "verdict"

\* C6 as stated: whenever Primary Review returns fail with next_actor = qa
\* and QA is enabled, QA is invoked next.
C6_Original == [][ManagerFailsToQA => pc' = "qa"]_vars

\* C6 (amended): when Primary Review returns fail with next_actor = qa, QA is
\* enabled and the manager attempt number does not exceed managerRetries, the
\* next invocation is a follow-up QA review; the first follow-up QA
\* invocation that yields a parsed review ends the follow-up (QA is not
\* invoked again before Primary Review), and when its verdict is pass the
\* next invocation is the manager, with no executor invocation in between.
\* When the manager attempt number exceeds managerRetries the run ends as
\* ManagerExhausted instead.
C6_FollowUpQA ==
    /\ [][ManagerFailsToQA =>
            IF manager_attempt <= manager_retry_limit
            THEN pc' = "qa" /\ review_phase' = "qa_follow" /\ retry_index' = 0
            ELSE pc' = "done" /\ outcome' = "ManagerExhausted"]_vars
    /\ [][FollowUpQAVerdict =>
            /\ pc' # "qa"
            /\ (lastEvent'.status = "pass" =>
                    pc' = "manager" /\ agent_calls' = agent_calls)]_vars

\* C6 witness: Primary Review is reached again (second manager attempt) right
\* after a follow-up QA review that passed.
C6_Witness ==
    /\ pc = "manager"
    /\ manager_attempt = 2
    /\ lastEvent.role = "qa"
    /\ lastEvent.status = "pass"

\* an Acceptance Check that finds the deliverable missing or empty
MissingDeliverableStep ==
    /\ pc = "accept"
    /\ deliverable \in {"absent", "empty"}

\* what a missing-deliverable response must leave alone: no invocation is
\* made and no counter or session of a reviewer changes
ReviewersUntouched ==
    /\ lastEvent' = lastEvent
    /\ UNCHANGED <<qa_session, qa_attempt_index, qa_follow_counter,
                   manager_session, manager_attempt, retry_index, review_phase>>

\* C7 as stated: a response that leaves deliverables missing or empty leads
\* straight back to Executing, with no reviewer invoked and no reviewer
\* counter changed.
C7_Original == [][MissingDeliverableStep => pc' = "agent" /\ ReviewersUntouched]_vars

\* C7 (amended): a response that leaves deliverables missing or empty leads
\* straight back to Executing when an agent attempt remains, and ends the run
\* without any further invocation when it was the last attempt; in both cases
\* no QA or manager invocation happens for that response and no reviewer
\* counter changes: only the agent attempt budget is consumed.
C7_MissingDeliverables ==
    [][MissingDeliverableStep =>
          /\ ReviewersUntouched
          /\ IF attempt <= agent_retry_limit
             THEN pc' = "agent" /\ attempt' = attempt + 1
             ELSE pc' = "done" /\ attempt' = attempt]_vars

\* C7 witness: back in Executing after an empty deliverable, no reviewer
\* having been invoked.
C7_Witness ==
    /\ pc = "agent"
    /\ attempt = 2
    /\ deliverable = "empty"
    /\ prompt_text = "missing"
    /\ lastEvent.role = "agent"
    /\ ~last["qa"].made /\ ~last["manager"].made

\* C8 as stated: for each role, the session token returned by a
\* gateway-successful invocation is the resume token of the next invocation
\* of that role.
C8_Original ==
    lastEvent.prior.made /\ lastEvent.prior.ok => lastEvent.resume = lastEvent.prior.tok

\* C8 (amended): the token returned by a gateway-successful executor
\* invocation is the resume token of the next executor invocation; for QA and
\* for the manager this holds when both invocations follow the same executor
\* invocation (the first QA and the first manager invocation after each
\* executor invocation carry no token).
C8_TokenCarriedForward ==
    /\ (lastEvent.prior.made /\ lastEvent.prior.ok
            /\ (lastEvent.role = "agent" \/ lastEvent.prior.cur)
        => lastEvent.resume = lastEvent.prior.tok)
    /\ (lastEvent.role \in {"qa", "manager"} /\ ~lastEvent.prior.cur
        => lastEvent.resume = None)

\* C8 witness: a manager invocation resumed the token that the manager's
\* previous, gateway-successful invocation returned.
C8_Witness ==
    /\ lastEvent.role = "manager"
    /\ lastEvent.prior.ok
    /\ lastEvent.prior.tok # None
    /\ lastEvent.resume = lastEvent.prior.tok

\* C9: after a gateway-level failure of a role, the next invocation of that
\* role carries no session token.
C9_NoTokenAfterGatewayFailure ==
    lastEvent.prior.made /\ ~lastEvent.prior.ok => lastEvent.resume = None

\* C9 witness: during a follow-up QA review (the manager has reviewed the
\* current executor output) a QA invocation failed at the gateway, and the
\* retry has been sent without a token.
C9_Witness ==
    /\ lastEvent.role = "qa"
    /\ lastEvent.prior.made
    /\ ~lastEvent.prior.ok
    /\ last["manager"].made /\ last["manager"].cur
    /\ lastEvent.resume = None

\* C10: the resume token of an invocation is absent or was created for that
\* same role; the session variables of the three roles hold only their own
\* role's tokens.
C10_TokensNotSharedAcrossRoles ==
    /\ lastEvent.resume.by \in {"none", lastEvent.role}
    /\ agent_session.by \in {"none", "agent"}
    /\ qa_session.by \in {"none", "qa"}
    /\ manager_session.by \in {"none", "manager"}

\* C10 witness: all three roles hold a token and a QA invocation resumed a
\* QA token.
C10_Witness ==
    /\ lastEvent.role = "qa"
    /\ lastEvent.resume.by = "qa"
    /\ agent_session # None
    /\ manager_session # None

\* ========================================================================
\* Properties of the scheduler
\* ========================================================================
\* the work item set given to the scheduler, read independently of the
\* algorithm: identifiers, and the dependencies declared for an identifier
ItemIds == index_keys(tasks)

DepsOf(id) == UNION {Range(tasks[i].deps) : i \in {k \in DOMAIN tasks : tasks[k].task_id = id}}

NoDuplicateIds == \A i, j \in DOMAIN tasks : tasks[i].task_id = tasks[j].task_id => i = j

AllDepsExist == \A id \in ItemIds : DepsOf(id) \subseteq ItemIds

\* the items reachable from the frontier along at most k dependency edges
RECURSIVE Upstream(_, _)
Upstream(frontier, k) ==
    IF k = 0 THEN {}
    ELSE LET next == UNION {DepsOf(x) : x \in frontier} \cap ItemIds IN
         next \cup Upstream(next, k - 1)

Acyclic == \A id \in ItemIds : id \notin Upstream({id}, Cardinality(ItemIds))

\* _topologically_sort was called on the list and has answered
SchedulerAnswered ==
    /\ sched_pc \in {"sorted", "rejected"}
    /\ sched_error \notin {"duplicate", "not_chronological"}

Emitted(out, i) == {out[j] : j \in 1..(i - 1)}

\* C2: for an acyclic set of work items whose dependencies all exist,
\* _topologically_sort returns a sequence that contains every item exactly
\* once and in which every dependency of an item appears before the item.
C2_TopologicalOrder ==
    SchedulerAnswered /\ NoDuplicateIds /\ AllDepsExist /\ Acyclic =>
        /\ sched_error = "none"
        /\ Len(ordered) = Cardinality(ItemIds)
        /\ Range(ordered) = ItemIds
        /\ \A i \in DOMAIN ordered : DepsOf(ordered[i]) \subseteq Emitted(ordered, i)

\* C2 witness: three items with dependencies were sorted into an order that
\* differs from the listed one.
C2_Witness ==
    /\ sched_pc = "sorted"
    /\ Len(ordered) = 3
    /\ \E i \in DOMAIN tasks : tasks[i].deps # <<>>
    /\ \E i \in DOMAIN tasks : ordered[i] # tasks[i].task_id

\* the items not yet emitted whose dependencies have all been emitted
Eligible(emitted) == {t \in ItemIds \ emitted : DepsOf(t) \subseteq emitted}

RECURSIVE Reverse(_)
Reverse(seq) == IF seq = <<>> THEN <<>> ELSE Append(Reverse(Tail(seq)), Head(seq))

\* C3: at every position of the scheduler's output the item emitted is the
\* one with the smallest identifier among the items not yet emitted whose
\* dependencies have all been emitted; the output is the same when the items
\* are listed in the opposite order.
C3_SmallestEligibleFirst ==
    SchedulerAnswered /\ sched_error = "none" =>
        /\ \A i \in DOMAIN ordered :
              /\ ordered[i] \in Eligible(Emitted(ordered, i))
              /\ \A t \in Eligible(Emitted(ordered, i)) : ordered[i] <= t
        /\ topologically_sort(Reverse(tasks)).order = ordered

\* C3 witness: items listed in descending order were sorted, and at the
\* first position at least two items were eligible.
C3_Witness ==
    /\ sched_pc = "sorted"
    /\ Len(tasks) >= 2
    /\ tasks[1].task_id > tasks[2].task_id
    /\ Cardinality(Eligible({})) >= 2
    /\ ordered[1] < ordered[2]

\* C4: a set with a dependency cycle (a self-dependency included) or with a
\* dependency on an identifier that is not in the set is rejected with an
\* error: no ordering is returned and no item is handed to the state machine.
C4_CyclicOrUnknownRejected ==
    sched_pc \notin {"idle", "input"} /\ (~Acyclic \/ ~AllDepsExist) =>
        /\ sched_pc = "rejected"
        /\ sched_error # "none"
        /\ ordered = <<>>
        /\ handed = <<>>

\* C4 witness: a backlog T-001..T-003 in which two tasks depend on each
\* other, with no self-dependency, was rejected as cyclic.
C4_Witness ==
    /\ sched_pc = "rejected"
    /\ sched_error = "cyclic"
    /\ Len(tasks) = 3
    /\ \A i \in DOMAIN tasks : tasks[i].task_id = i
    /\ \A id \in ItemIds : id \notin DepsOf(id)
    /\ \E id \in ItemIds : id \in Upstream({id}, 3)
    /\ handed = <<>>

\* ========================================================================
\* Properties of the stage pipelines
\* ========================================================================
Items == 1..n_items

second_stage == stage_sequence(pipeline)[2]

third_stage == stage_sequence(pipeline)[3]

\* the history of item i records its second stage (triage for a bug) with
\* status duplicate or rejected at position k
ClosedAt(i, k) ==
    /\ stage_state[i].history[k][1] = second_stage
    /\ stage_state[i].history[k][2] \in {"duplicate", "rejected"}

\* C11: when the triage stage of a bug item completes with status duplicate
\* or rejected, pending_stage becomes done with that very update, and the
\* repro stage is never invoked for the item, in that pass or a later one
\* (likewise review and plan of a feedback item).
C11_DuplicateClosesItem ==
    \A i \in Items : \A k \in DOMAIN stage_state[i].history :
        ClosedAt(i, k) =>
            /\ stage_state[i].pending_stage = "done"
            /\ k = Len(stage_state[i].history)
            /\ third_stage \notin stage_runs[i]

\* C11 witness: a bug whose triage was recorded as duplicate is met again in
\* a later pass and skipped as done.
C11_Witness ==
    /\ pipeline = "bug"
    /\ pipe_event.kind = "skip_done"
    /\ LET h == stage_state[pipe_event.item].history IN
       /\ Len(h) = 2
       /\ h[2] = <<"triage", "duplicate">>

\* ========================================================================
\* Properties of the task loop
\* ========================================================================
\* C12: a task identifier is in processed_tasks only if it was there when
\* the set was loaded or the flow run for the task ended with a manager pass.
C12_ProcessedOnlyIfAccepted ==
    processed_tasks \subseteq (completed_before \cup accepted)

\* the for loop of _run_task_loop has started
LoopStarted == sched_pc \in {"loop", "finished", "halted"} /\ ordered # <<>>

\* the first task of the scheduled order that is not in S (0: there is none)
FirstNotIn(S) ==
    IF \A i \in DOMAIN ordered : ordered[i] \in S THEN 0
    ELSE ordered[CHOOSE i \in DOMAIN ordered :
                    ordered[i] \notin S /\ \A j \in 1..(i - 1) : ordered[j] \in S]

\* C13 as stated: without the reprocess flag no task of the loaded
\* completed-set is handed to the state machine, and the first task handed
\* is the first task in scheduled order that is not in that set.
C13_Original ==
    LoopStarted /\ ~reprocess_tasks =>
        /\ Range(handed) \cap completed_before = {}
        /\ handed # <<>> => handed[1] = FirstNotIn(completed_before)

\* C13 (amended): without the reprocess flag no task of the loaded
\* completed-set is handed to the state machine, and the first task handed
\* is the first task in scheduled order that is neither in that set nor
\* skipped because no prompt is mapped for its owner.
C13_ResumeAtFirstUnresolved ==
    LoopStarted /\ ~reprocess_tasks =>
        /\ Range(handed) \cap completed_before = {}
        /\ handed # <<>> => handed[1] = FirstNotIn(completed_before \cup unroutable)

\* C13 witness: the first scheduled task was in the loaded completed-set and
\* a later task was handed to the state machine.
C13_Witness ==
    /\ LoopStarted
    /\ ~reprocess_tasks
    /\ ordered[1] \in completed_before
    /\ handed # <<>>
    /\ handed[1] # ordered[1]

\* C14: a task is handed to the state machine only after every task listed
\* in its deps has reached Accepted, in this run or in a run before it (its
\* identifier was in the loaded completed-set).
C14_DepsAcceptedFirst ==
    LoopStarted =>
        \A k \in DOMAIN handed : DepsOf(handed[k]) \subseteq (completed_before \cup accepted)

\* ========================================================================
\* Properties of the budgets of one run
\* ========================================================================
\* C15: once the manager verdicts with status fail received for the item
\* exceed manager_retry_limit, the run has ended as ManagerExhausted,
\* whether or not the flow went back to Executing in between.
C15_ManagerBudgetIsPerItem ==
    tally.on /\ tally.manager_fails > manager_retry_limit =>
        pc = "done" /\ outcome = "ManagerExhausted"

\* C16: the QA invocations made for one item never exceed qa_retry_limit + 1,
\* however often the manager sends the item back to QA.
C16_QABudgetIsGlobal ==
    tally.on => tally.qa_calls <= qa_retry_limit + 1


\* ------------------------------------------------------------------------
\* Properties of the review verdicts
\* ------------------------------------------------------------------------
UnrecognizedVerdict == lastEvent.kind = "verdict" /\ lastEvent.status = "other"

\* C17: a QA or manager response whose status is absent or not a recognized
\* value is handled as a parse failure: the same reviewer is invoked again
\* under its retry budget (or that budget is exhausted), and the item is
\* never sent back to Executing as if the verdict were fail.
C17_UnrecognizedStatusIsParseFailure ==
    UnrecognizedVerdict =>
        \/ pc = lastEvent.role
        \/ pc = "done" /\ outcome \in {"QAUnresolved", "ManagerUnresolved"}

\* ------------------------------------------------------------------------
\* Properties of the stored stage state
\* ------------------------------------------------------------------------
StageJustCompleted(status) == pipe_event.kind = "completed" /\ pipe_event.status = status

\* C18: at every stage of either pipeline (intake, triage or review, repro
\* or plan) a stage result with status needs_info leaves pending_stage at
\* that same stage and sets awaiting_human.
C18_NeedsInfoWaitsAtSameStage ==
    StageJustCompleted("needs_info") =>
        /\ stage_state[pipe_event.item].pending_stage = pipe_event.stage
        /\ stage_state[pipe_event.item].awaiting_human

\* the kinds of loop step in which _execute_agent_flow was called
InvokingKinds == {"fatal", "crash", "update_failed", "completed"}

InvokedFor(i) == pipe_event'.item = i /\ pipe_event'.kind \in InvokingKinds

ClearedByHuman(i) == pipe_event'.item = i /\ pipe_event'.kind = "human"

\* C19: an item whose stored awaiting_human is true is skipped on every
\* pass: unless a person edits its state, no step calls the gateway for it
\* and its stored state stays as it is.
C19_AwaitingItemsAreSkipped ==
    [][\A i \in Items :
          stage_state[i].awaiting_human /\ ~ClearedByHuman(i) =>
              /\ stage_state'[i] = stage_state[i]
              /\ stage_runs'[i] = stage_runs[i]
              /\ ~InvokedFor(i)]_vars

\* a pass has just skipped an item that waits for a person while another
\* item of the same pass went through a stage
C19_Witness ==
    /\ pipe_event.kind = "skip_awaiting"
    /\ stage_state[pipe_event.item].awaiting_human
    /\ \E j \in Items : j # pipe_event.item /\ Len(stage_state[j].history) > 1

\* ------------------------------------------------------------------------
\* Properties of a failing task
\* ------------------------------------------------------------------------
\* C20: in the task loop a fatal outcome of a task halts the run: the task
\* is the last one handed to _execute_agent_flow in that run, and it is not
\* added to processed_tasks.
C20_FatalOutcomeHaltsTaskLoop ==
    \A t \in failed :
        /\ sched_pc = "halted"
        /\ handed[Len(handed)] = t
        /\ t \in processed_tasks => t \in completed_before

\* the second task handed in a run failed after the first one was completed,
\* and a third task was still to come
C20_Witness ==
    /\ failed # {}
    /\ Len(handed) = 2
    /\ handed[1] \in processed_tasks \ completed_before
    /\ handed[2] \in failed \ processed_tasks
    /\ loop_index < Len(ordered)

\* ------------------------------------------------------------------------
\* Properties of a failing stage
\* ------------------------------------------------------------------------
\* the fields of StageState kept in state.json
stage_content(state) ==
    <<state.pending_stage, state.awaiting_human, state.awaiting_reason, state.history>>

FatalStageStep ==
    pipe_pc = "loop" /\ pipe_event'.kind = "fatal" /\ pipe_event'.item = item_index

\* C21: in the bug and feedback pipelines a fatal outcome of the stage of
\* one item leaves the stored state of that item and of every other item
\* as it was, and the pass goes on with the next item.
C21_FatalStageKeepsStateAndContinues ==
    [][FatalStageStep =>
          /\ \A j \in Items : stage_content(stage_state'[j]) = stage_content(stage_state[j])
          /\ IF item_index < n_items
             THEN pipe_pc' = "loop" /\ item_index' = item_index + 1
             ELSE pipe_pc' = "idle"]_vars

\* the stage of the first item, which had a stage recorded before, has just
\* failed and the loop stands at the second item
C21_Witness ==
    /\ pipe_event.kind = "fatal"
    /\ pipe_event.item = 1
    /\ stage_state[1].history # <<>>
    /\ pipe_pc = "loop"
    /\ item_index = 2

\* ------------------------------------------------------------------------
\* Termination of one run
\* ------------------------------------------------------------------------
AgentBudget == agent_retry_limit + 1

ManagerBudget == manager_retry_limit + 1

QABudget == qa_retry_limit + 1

\* steps that can follow a manager chain entered with manager_attempt = j:
\* each further chain is preceded by one follow-up QA chain
manager_rest(j) == (ManagerBudget - j) * (QABudget + ManagerBudget)

\* steps of one executor attempt: the run, the acceptance check, the first
\* QA chain and the manager chains with their follow-up QA chains
attempt_cost == 2 + QABudget + ManagerBudget + manager_rest(1)

later_attempts == (AgentBudget - attempt) * attempt_cost

\* an upper bound, computed from the three budgets and the position in the
\* flow, of the number of steps the run can still take
remaining_steps ==
    IF pc = "done" THEN 0
    ELSE IF pc = "agent" THEN later_attempts + attempt_cost
    ELSE IF pc = "accept" THEN later_attempts + attempt_cost - 1
    ELSE IF pc = "qa" /\ review_phase = "qa_initial"
    THEN later_attempts + (QABudget - retry_index) + ManagerBudget + manager_rest(1)
    ELSE IF pc = "qa"
    THEN later_attempts + (QABudget - retry_index) + ManagerBudget
            + manager_rest(manager_attempt + 1)
    ELSE later_attempts + (ManagerBudget - retry_index) + manager_rest(manager_attempt)

\* C22: every run of the flow terminates whatever the gateway returns: each
\* step (a gateway invocation or the acceptance check) strictly lowers a
\* non-negative measure that starts at AgentBudget * attempt_cost, a
\* function of the three budgets, so the invocations of one run are bounded
\* by it.
C22_EveryStepLowersTheMeasure ==
    [][remaining_steps' < remaining_steps /\ remaining_steps' >= 0]_vars

\* a run has ended after using every executor attempt, with QA enabled, a
\* follow-up QA review made and all budgets positive
C22_Witness ==
    /\ pc = "done"
    /\ enable_qa
    /\ agent_retry_limit > 0 /\ manager_retry_limit > 0 /\ qa_retry_limit > 0
    /\ agent_calls = agent_retry_limit + 1
    /\ manager_attempt > 1

\* ------------------------------------------------------------------------
\* Properties of the loading of the backlog
\* ------------------------------------------------------------------------
listed_ids == [i \in 1..Len(tasks) |-> tasks[i].task_id]

ListedInOrder == listed_ids = [i \in 1..Len(tasks) |-> i]

LoadErrors == {"duplicate", "not_chronological"}

\* C23: a backlog whose ids are not exactly T-001, T-002, ..., T-n in that
\* order (a duplicate, a gap, a reordering) is answered by a validation
\* error: no order is produced from it, the task loop is never entered and
\* no task is handed over.
C23_IllListedBacklogRejected ==
    ~ListedInOrder =>
        /\ collect_tasks(tasks).error \in LoadErrors
        /\ collect_tasks(tasks).order = <<>>
        /\ sched_pc \notin {"loop", "finished", "halted"}
        /\ sched_error \in LoadErrors => sched_pc = "rejected" /\ ordered = <<>>
        /\ handed = <<>>
        /\ processed_tasks = {}

\* the task loop has rejected a backlog that lists T-002 before T-001 and
\* has no duplicate
C23_Witness ==
    /\ sched_pc = "rejected"
    /\ sched_error = "not_chronological"
    /\ Len(tasks) = 3
    /\ listed_ids = <<2, 1, 3>>
    /\ ordered = <<>>

\* ------------------------------------------------------------------------
\* Properties of the conversation ledger and of the error reports
\* ------------------------------------------------------------------------
\* a step of the flow that is a gateway invocation
InvocationStep == tally.log /\ pc \in Roles

\* C24: every gateway invocation, whether it succeeds or fails at the
\* gateway, appends exactly one record (of its role) to the conversation
\* ledger, and the records already there stay as they are.
C24_OneRecordPerInvocation ==
    [][/\ InvocationStep => tally'.ledger = Append(tally.ledger, pc)
       /\ ~InvocationStep =>
             /\ Len(tally'.ledger) >= Len(tally.ledger)
             /\ SubSeq(tally'.ledger, 1, Len(tally.ledger)) = tally.ledger]_vars

\* the message of the WorkflowError that ended the run names the
\* last_message_path of the last invocation ("See {display_path} for the
\* last response"): only the `except InvalidAgentResponseError` branches of
\* the two review helpers compose such a message
error_names_output ==
    /\ pc = "done"
    /\ outcome \in {"QAUnresolved", "ManagerUnresolved"}
    /\ lastEvent.kind = "unparsable"

\* C25: every fatal outcome of a run (AgentExhausted, QAUnresolved,
\* ManagerUnresolved, ManagerExhausted) carries a reference to the raw
\* output location of the last invocation made for the item.
C25_FatalOutcomeNamesLastOutput ==
    pc = "done" /\ outcome \in Fatal => error_names_output

\* ------------------------------------------------------------------------
\* Properties of the retries of a reviewer
\* ------------------------------------------------------------------------
Reviewers == {"qa", "manager"}

retry_limit_of(role) == IF role = "qa" THEN qa_retry_limit ELSE manager_retry_limit

unresolved_of(role) == IF role = "qa" THEN "QAUnresolved" ELSE "ManagerUnresolved"

\* the latest invocation was a reviewer's and gave no verdict
ReviewerGaveNoVerdict ==
    lastEvent.role \in Reviewers /\ lastEvent.kind \in {"gwfail", "unparsable"}

\* C26: within one review phase a reviewer whose invocations fail at the
\* gateway or give no parseable verdict is invoked at most qaRetries + 1
\* (QA) or managerRetries + 1 (manager) times; after such a failure the
\* flow either invokes the same reviewer again or ends with QAUnresolved or
\* ManagerUnresolved, and it never goes back to Executing.
C26_ReviewerRetriesBounded ==
    /\ pc \in Reviewers => retry_index + 1 <= retry_limit_of(pc) + 1
    /\ ReviewerGaveNoVerdict =>
          \/ pc = lastEvent.role /\ retry_index >= 1
          \/ pc = "done" /\ outcome = unresolved_of(lastEvent.role)

\* QA, with a positive budget, failed at the gateway on its last allowed
\* invocation of a phase
C26_Witness ==
    /\ pc = "done"
    /\ outcome = "QAUnresolved"
    /\ qa_retry_limit > 0
    /\ lastEvent.role = "qa"
    /\ lastEvent.kind = "gwfail"

\* a reviewer's invocation returned from the gateway without a parseable
\* verdict and the helper is about to invoke the reviewer again
RetryAfterParseError ==
    /\ pc \in Reviewers
    /\ lastEvent.role = pc
    /\ lastEvent.kind = "unparsable"

\* C27: when a reviewer invocation succeeds at the gateway but yields no
\* parseable verdict, the session which the helper holds for the retry of
\* that reviewer (the resume_session of its next invocation) is the token
\* which the unparseable invocation returned.
C27_SessionKeptAcrossParseError ==
    RetryAfterParseError => retry_index >= 1 /\ session = last[pc].tok

\* without QA, the manager answered with a verdict on the retry that
\* followed its unparseable answer to the same executor output, and the
\* retry resumed the token of that answer
C27_Witness ==
    /\ ~enable_qa
    /\ lastEvent.role = "manager"
    /\ lastEvent.kind = "verdict"
    /\ lastEvent.prior.made /\ lastEvent.prior.ok /\ lastEvent.prior.cur
    /\ lastEvent.resume # None
    /\ lastEvent.resume = lastEvent.prior.tok

\* ------------------------------------------------------------------------
\* Properties of the corrective prompts
\* ------------------------------------------------------------------------
\* a QA invocation that returns a parsed review whose status is not pass
QANotPass ==
    /\ tally.watch
    /\ Invokes("qa")
    /\ lastEvent'.kind = "verdict"
    /\ lastEvent'.status # "pass"

\* with QA enabled the manager is invoked only while the latest QA verdict
\* on the current executor output is pass
ManagerOnlyAfterQAPass ==
    tally.watch /\ enable_qa /\ pc = "manager" => tally.qa_verdict = "pass"

\* C28 as stated: with QA enabled the manager is invoked only when the latest
\* QA verdict on the current executor output is pass, and a QA verdict other
\* than pass sends the item back to Executing with a corrective prompt built
\* from the QA issues.
C28_Original ==
    /\ []ManagerOnlyAfterQAPass
    /\ [][QANotPass => pc' = "agent" /\ prompt_text' = "retry_qa"]_vars

\* C28 (amended): with QA enabled the manager is invoked only when the latest
\* QA verdict on the current executor output is pass.  After a QA verdict
\* other than pass no reviewer is invoked for that output any more: when an
\* executor attempt remains the item goes back to Executing, and otherwise
\* the run ends with no further invocation.  The corrective prompt lists the
\* QA issues, except that after a follow-up QA review which lists no issues
\* it lists the manager's.
C28_QAGatesManager ==
    /\ []ManagerOnlyAfterQAPass
    /\ [](tally.watch /\ tally.qa_verdict \in {"fail", "other"} => pc \in {"agent", "done"})
    /\ [][QANotPass =>
            /\ prompt_text' = IF review_phase = "qa_initial" \/ tally'.qa_listed
                              THEN "retry_qa" ELSE "retry_manager"
            /\ IF attempt <= agent_retry_limit
               THEN pc' = "agent" /\ attempt' = attempt + 1
               ELSE pc' = "done" /\ agent_calls' = agent_calls]_vars

\* the manager is about to review the second executor attempt, which was
\* sent the prompt built from the QA issues and has passed QA
C28_Witness ==
    /\ tally.watch
    /\ pc = "manager"
    /\ attempt = 2
    /\ prompt_text = "retry_qa"
    /\ tally.qa_verdict = "pass"

\* a Primary Review step returning fail with next_actor = agent, without
\* next_actor, or while QA is disabled
ManagerFailsToAgent ==
    /\ tally.watch
    /\ Invokes("manager")
    /\ lastEvent'.kind = "verdict"
    /\ lastEvent'.status = "fail"
    /\ (lastEvent'.next_actor \in {"agent", "absent"} \/ ~enable_qa)

AgentGatewayFailureRetried ==
    /\ Invokes("agent")
    /\ lastEvent'.kind = "gwfail"
    /\ pc' = "agent"

\* C30: after a gateway-level failure of the executor with attempts
\* remaining, the retry is sent the original prompt of the work item,
\* whatever prompt the failed invocation had been sent.
C30_RetryAfterGatewayFailureUsesOriginalPrompt ==
    [][AgentGatewayFailureRetried => prompt_text' = "initial"]_vars

\* ------------------------------------------------------------------------
\* Properties of the progress of an item through its stages
\* ------------------------------------------------------------------------
\* the stored state of item i is changed by a step of the pipeline
ChangedByController(i) ==
    /\ stage_content(stage_state'[i]) # stage_content(stage_state[i])
    /\ ~ClearedByHuman(i)

\* C31: the stored state of an item (pending_stage, awaiting_human, history)
\* is changed only by a step in which the flow for its pending stage reached
\* Accepted; a stage whose run ended without a manager pass leaves
\* pending_stage and history as they were.
C31_StateChangesOnlyAfterAccepted ==
    [][\A i \in Items :
          ChangedByController(i) => pipe_event'.item = i /\ pipe_event'.flow = "Accepted"]_vars

\* the step records a stage of item i: its result file was read
RecordsStage(i) == pipe_event'.kind = "completed" /\ pipe_event'.item = i

\* C32: a pass visits the items one after the other, so it runs at most one
\* stage per item; a stage whose result is recorded appends exactly one
\* entry (stage, status) to the history of its item, and no other step
\* changes, reorders or removes an entry of any history.
C32_OneStagePerPassAppendOnly ==
    [][/\ (pipe_pc = "loop" /\ pipe_pc' = "loop" => item_index' = item_index + 1)
       /\ (pipe_pc # "loop" /\ pipe_pc' = "loop" => pipe_pc = "idle" /\ item_index' = 1)
       /\ (pipe_event'.flow # "none" => pipe_pc = "loop" /\ pipe_event'.item = item_index)
       /\ \A i \in Items :
             stage_state'[i].history =
                 IF RecordsStage(i)
                 THEN Append(stage_state[i].history, <<pipe_event'.stage, pipe_event'.status>>)
                 ELSE stage_state[i].history]_vars

C32_Witness ==
    \E i \in Items :
        /\ pipe_event.kind = "completed" /\ pipe_event.item = i
        /\ Len(stage_state[i].history) >= 2
        /\ stage_state[i].history[1][1] = "intake"

\* the place of a stage in the list of its pipeline, done being the last
stage_rank(st) ==
    IF st = "done" THEN 4 ELSE CHOOSE k \in 1..3 : stage_sequence(pipeline)[k] = st

\* C33: no step moves the pending stage of an item to an earlier stage of
\* its list, and for an item at done no step calls the flow or changes the
\* stored state.
C33_StagesOnlyForwardDoneIsFinal ==
    [][\A i \in Items :
          /\ stage_rank(stage_state'[i].pending_stage) >= stage_rank(stage_state[i].pending_stage)
          /\ stage_state[i].pending_stage = "done" =>
                /\ ~InvokedFor(i)
                /\ stage_content(stage_state'[i]) = stage_content(stage_state[i])]_vars

C33_Witness ==
    /\ pipe_event.kind = "skip_done"
    /\ stage_state[pipe_event.item].pending_stage = "done"
    /\ Len(stage_state[pipe_event.item].history) = 3

\* the state written for the item whose stage was just recorded
written_state == stage_state[pipe_event.item]

\* C34: in the state written after a stage, awaiting_human set means that
\* pending_stage is not done and awaiting_reason is needs_info or blocked,
\* and awaiting_human not set means that no awaiting_reason is stored.
C34_AwaitingFieldsAgree ==
    pipe_event.kind = "completed" =>
        IF written_state.awaiting_human
        THEN /\ written_state.pending_stage # "done"
             /\ written_state.awaiting_reason \in {"needs_info", "blocked"}
        ELSE written_state.awaiting_reason = "none"

C34_Witness ==
    /\ pipe_event.kind = "completed"
    /\ written_state.awaiting_human
    /\ written_state.awaiting_reason = "blocked"
    /\ written_state.pending_stage = third_stage

\* ------------------------------------------------------------------------
\* Properties of routing by owner
\* ------------------------------------------------------------------------
\* no candidate made of the owner text is a key of OWNER_TOKEN_MAP
matches_no_token(o) ==
    \A k \in DOMAIN owner_candidates(o) : owner_token_key(owner_candidates(o)[k]) = "none"

\* the step of the loop that reads the owner of the current task
OwnerRead == sched_pc = "loop" /\ ~already_processed /\ ~limit_reached

\* C35: a task whose owner matches no routing token is skipped: the step
\* that reads the owner hands nothing to the flow, leaves the flow, the
\* completed-set and the count as they were, and goes on with the next task.
C35_UnroutableSkipped ==
    [][OwnerRead /\ matches_no_token(owner') =>
          /\ unroutable' = unroutable \cup {task}
          /\ handed' = handed
          /\ processed_tasks' = processed_tasks
          /\ count' = count
          /\ sched_pc' # "halted"
          /\ UNCHANGED flowVars]_vars

C35_Witness ==
    /\ owner = <<"marketing">>
    /\ unroutable # {}
    /\ handed # <<>>
    /\ unroutable \cap Range(handed) = {}
    /\ unroutable \cap processed_tasks = {}

\* ------------------------------------------------------------------------
\* Properties of the bot's workflow process
\* ------------------------------------------------------------------------
\* C36: at most one process started by the bot is alive at any time, and
\* once a stop request has gone through _stop_workflow_core no process
\* started by the bot is alive.
C36_AtMostOneWorkflowAlive ==
    /\ Cardinality(alive) <= 1
    /\ handler_pc \in {"stop_nothing_running", "stop_already_stopped", "stop_terminated"}
          => alive = {}

\* ------------------------------------------------------------------------
\* Properties of the reading of an output file
\* ------------------------------------------------------------------------
\* the JSON values of at most n tokens, by the grammar
RECURSIVE JsonValues(_)
JsonValues(n) ==
    IF n < 1 THEN {}
    ELSE {v \in {<<"n">>, <<"{", "}">>, <<"[", "]">>} : Len(v) <= n}
         \cup {<<"[">> \o v \o <<"]">> : v \in JsonValues(n - 2)}

IsJson(text) == text \in JsonValues(MaxTextLen)

\* the text without an enclosing pair of fences
unfenced(text) ==
    IF Len(text) >= 2 /\ Head(text) = "F" /\ text[Len(text)] = "F"
    THEN [k \in 1..(Len(text) - 2) |-> text[k + 1]]
    ELSE text

\* an object or an array starts at position i of the text
value_starts(text, i) ==
    /\ text[i] \in {"{", "["}
    /\ \E j \in i..Len(text) : IsJson(SubSeq(text, i, j))

\* the object or array that starts at position i
value_at(text, i) ==
    SubSeq(text, i, CHOOSE j \in i..Len(text) : IsJson(SubSeq(text, i, j)))

\* C37: read_agent_output returns the whole text (without an enclosing
\* fence) when it is a JSON value; otherwise the object or array at the
\* leftmost '{' or '[' where one decodes, whatever comes before and after
\* it; and InvalidAgentResponseError when there is none.
C37_ReadAgentOutput ==
    read_result # NotRead =>
        LET text == unfenced(raw_text)
            starts == {i \in DOMAIN text : value_starts(text, i)}
        IN  IF IsJson(text)
            THEN read_result = [kind |-> "value", value |-> text]
            ELSE IF starts # {}
            THEN LET first == CHOOSE i \in starts : \A k \in starts : i <= k
                 IN  read_result = [kind |-> "value", value |-> value_at(text, first)]
            ELSE read_result.kind = "InvalidAgentResponseError"

C37_Witness ==
    /\ raw_text = <<"x", "{", "[", "]">>
    /\ read_result = [kind |-> "value", value |-> <<"[", "]">>]

\* ------------------------------------------------------------------------
\* Properties of a review that is JSON but not an object
\* ------------------------------------------------------------------------
\* C38: a review that is valid JSON but not an object is treated as a
\* response without a verdict: the run does not end with an error other
\* than WorkflowError because of it.
C38_NonObjectReviewIsParseFailure ==
    lastEvent.kind = "nondict" => outcome # "Crashed"

\* ------------------------------------------------------------------------
\* Properties of the labels of the invocations
\* ------------------------------------------------------------------------
\* C39: within the run of one work item no invocation uses a label that an
\* earlier invocation of the run has used, so no transcript and no
\* last-message file of the run is overwritten.
C39_LabelsNeverReused == ~tally.overwritten
====
